---- MODULE Spec2Model ----
(***************************************************************************)
(* Verification model of the race-strategy client:                         *)
(*   - TokenManager (lib/auth): cached bearer token, single-flight refresh *)
(*   - RedMistSignalRClient (lib/signalr): live connection manager         *)
(*   - useSessionStore (store): REST polling session store                 *)
(*   - mergeCompetitorData (lib/unified): cross-source merge               *)
(*   - updatePositionsAtLap (RaceReplay): replay reconstruction            *)
(*   - calculateTruePace (lib/unified): green-flag pace                    *)
(*   - ReceiveMessage handler (lib/signalr): envelope codec and dispatch   *)
(*   - useRaceMonitorStore (store): correlation of the providers' records  *)
(*   - db.getLapsForSession (lib/supabase): paginated read                 *)
(*   - syncLapData (lib/sync): lap sync and its completeness marker        *)
(* Each component has its own specification (SpecToken, SpecConn, ...);    *)
(* the variables of the other components stay at their initial value.      *)
(***************************************************************************)
EXTENDS Integers, Sequences, FiniteSets, TLC

VARIABLES
    \* ---- TokenManager ----
    now,            \* Date.now(), ms
    accessToken,    \* this.accessToken   (NoToken = null)
    tokenExpiry,    \* this.tokenExpiry   (NoExpiry = null)
    refreshPromise, \* this.refreshPromise (NoPromise = null, else exchange id)
    config,         \* this.config        (NoConfig = null, else credential id)
    inflight,       \* credential-exchange requests sent and not yet answered
    nextXid,        \* serial number of the next refreshToken() invocation
    calls,          \* per caller: the getToken() call it is making / has made
    refreshTick,    \* flips every time the startAutoRefresh interval callback runs
    timerOwns,      \* the exchange started by an interval callback that awaits it (0 = none)
    loggedOut,      \* clearCredentials() was called and no getToken() call was started since
    \* ---- RedMistSignalRClient ----
    connection,       \* this.connection: NoConnection (null) or the hub's state
    connectionState,  \* this.connectionState
    subscribedEventId,\* this.subscribedEventId (NoEvent = null)
    subscribedCar,    \* this.subscribedCar (NoCar = null)
    active,           \* subscriptions made by the owner and not unsubscribed
    serverSubs,       \* subscriptions registered for the current connection id
    hubLog,           \* hub calls issued by the most recent operation, in order
    thrown,           \* whether the most recent operation threw to its caller
    connectTick,      \* flips on every connect() call
    previousRetryCount, \* retryContext.previousRetryCount of the reconnect loop
    reachable,        \* whether the hub can be reached by the transport
    retryTick,        \* flips on every failed reconnect attempt
    onErrorCalled,    \* the most recent handler invoked callbacks.onError
    \* ---- useSessionStore ----
    sessionState,     \* sessionState: NoSession (null) or its currentFlag
    carPositions,     \* carPositions
    controlLog,       \* controlLog
    inCarPayload,     \* inCarPayload (NoPayload = null)
    isConnected,      \* isConnected
    storeConnectionState, \* the store's connectionState
    pollTimers,       \* interval timers created and not cleared
    windowPollInterval, \* window.__pollInterval (NoTimer = undefined)
    liveCalls,        \* connectToLive() calls: where each one is suspended
    tickFetches,      \* timers whose tick awaits fetchSessionState()
    inCarPending,     \* a subscribeToInCar() fetch is awaited
    torn,             \* disconnect() has returned, no connectToLive() since
    \* ---- mergeCompetitorData ----
    mA, mB,           \* the two unified records handed to the merge
    mVaried,          \* how many fields of mA, mB were changed from the base
    mAB, mBA,         \* mergeCompetitorData(mA, mB), mergeCompetitorData(mB, mA)
    merged,           \* the merge has run on mA, mB
    mC,               \* a third unified record of the same car
    mLeft, mRight,    \* merge(merge(mA, mB), mC) and merge(mA, merge(mB, mC))
    \* ---- RaceReplay ----
    scheme,           \* how the loaded lap records are numbered
    allCarsLapData,   \* CarLapData[]: carNumber, className, laps
    positions,        \* replayState.positions
    currentLap,       \* replayState.currentLap
    replayed,         \* updatePositionsAtLap has run on the loaded data
    engine,           \* which sort implementation the JavaScript engine has
    firstSnapshot,    \* per lap: the first snapshot reconstructed for it
    \* ---- calculateTruePace ----
    lapHistory,       \* UnifiedLapData[] handed to calculateTruePace
    outliersOff,      \* excludeOutliers was passed as false
    paceResult,       \* what calculateTruePace returned (NoResult before the call)
    \* ---- RedMistSignalRClient message handler ----
    received,         \* envelopes delivered to the ReceiveMessage handler so far
    lastEnvelope,     \* the envelope handled last (NoEnvelope before the first)
    lastDecoded,      \* what decompressMessage returned for it (DecodeError if it threw)
    inflated,         \* whether pako.inflate was called for it
    invoked,          \* the typed handler it was dispatched to (NoHandler if none)
    caught,           \* whether the handler's catch block ran for it
    listening,        \* whether the ReceiveMessage handler is still registered and running
    deliveries,       \* the typed handler invocations so far, in order
    errors,           \* how many envelopes ended in the catch block so far
    \* ---- useRaceMonitorStore and transponderStore ----
    unifiedCompetitors,\* unifiedCompetitors
    lapHistoryByTransponder,\* lapHistoryByTransponder (Undefined where the map has no entry)
    mappings,         \* transponderStore.mappings: the car number kept per transponder
    redmistUnified,   \* the converted provider-A records of the last mergeWithRedMist call
    unifyOps,         \* store operations carried out so far
    unifyOp,          \* the store operation carried out last
    \* ---- db.getLapsForSession ----
    lapRows,          \* laps table: how many rows each session has stored
    readPc,           \* where the getLapsForSession call is (idle, reading, done)
    readSession,      \* its sessionId argument
    allLaps,          \* its allLaps array: the rows collected so far
    readOffset,       \* its offset variable
    requested,        \* the ranges it has requested, in order
    readFailed,       \* a page request of the call returned an error
    \* ---- syncLapData ----
    syncStatus,       \* sync_status row of the session's laps ('none' when there is no row)
    lapTable,         \* laps table: the (car, lap number) rows stored for the session
    syncPc,           \* where the syncLapData call is (idle, fetching, storing, done)
    syncCars,         \* its carNumbers argument
    carIndex,         \* the car its loop is at
    syncAllLaps,      \* its allLaps array
    syncResult,       \* what it returned
    fromCache,        \* it returned the cached lap count without fetching
    fetchFailed,      \* a getCarLaps call of the run failed
    batchFailed,      \* a batch of the run's upsertLaps call was not stored
    marked,           \* the run wrote the status 'complete'
    dirty,            \* a run had a failed fetch or batch and no later run went through clean
    syncRuns          \* syncLapData calls made so far

tokenVars == <<now, accessToken, tokenExpiry, refreshPromise, config,
               inflight, nextXid, calls, refreshTick, timerOwns,
               loggedOut>>

connVars == <<connection, connectionState, subscribedEventId, subscribedCar,
              active, serverSubs, hubLog, thrown, connectTick,
              previousRetryCount, reachable, retryTick, onErrorCalled>>

storeVars == <<sessionState, carPositions, controlLog, inCarPayload,
               isConnected, storeConnectionState, pollTimers,
               windowPollInterval, liveCalls, tickFetches, inCarPending, torn>>

mergeVars == <<mA, mB, mVaried, mAB, mBA, merged, mC, mLeft, mRight>>

replayVars == <<scheme, allCarsLapData, positions, currentLap, replayed,
                engine, firstSnapshot>>

paceVars == <<lapHistory, outliersOff, paceResult>>

msgVars == <<received, lastEnvelope, lastDecoded, inflated, invoked, caught, listening, deliveries, errors>>

unifyVars == <<unifiedCompetitors, lapHistoryByTransponder, mappings, redmistUnified, unifyOps, unifyOp>>

lapsVars == <<lapRows, readPc, readSession, allLaps, readOffset, requested, readFailed>>

syncVars == <<syncStatus, lapTable, syncPc, syncCars, carIndex, syncAllLaps, syncResult, fromCache, fetchFailed, batchFailed, marked, dirty, syncRuns>>

vars == <<tokenVars, connVars, storeVars, mergeVars, replayVars, paceVars,
          msgVars, unifyVars, lapsVars, syncVars>>

\* what a step of one component leaves unchanged: the other components
othersToken == <<connVars, storeVars, mergeVars, replayVars, paceVars,
                 msgVars, unifyVars, lapsVars, syncVars>>
othersConn == <<tokenVars, storeVars, mergeVars, replayVars, paceVars,
                msgVars, unifyVars, lapsVars, syncVars>>
othersStore == <<tokenVars, connVars, mergeVars, replayVars, paceVars,
                 msgVars, unifyVars, lapsVars, syncVars>>
othersMerge == <<tokenVars, connVars, storeVars, replayVars, paceVars,
                 msgVars, unifyVars, lapsVars, syncVars>>
othersReplay == <<tokenVars, connVars, storeVars, mergeVars, paceVars,
                  msgVars, unifyVars, lapsVars, syncVars>>
othersPace == <<tokenVars, connVars, storeVars, mergeVars, replayVars,
                msgVars, unifyVars, lapsVars, syncVars>>
othersMsg == <<tokenVars, connVars, storeVars, mergeVars, replayVars,
               paceVars, unifyVars, lapsVars, syncVars>>
othersUnify == <<tokenVars, connVars, storeVars, mergeVars, replayVars,
                 paceVars, msgVars, lapsVars, syncVars>>
othersLaps == <<tokenVars, connVars, storeVars, mergeVars, replayVars,
                paceVars, msgVars, unifyVars, syncVars>>
othersSync == <<tokenVars, connVars, storeVars, mergeVars, replayVars,
                paceVars, msgVars, unifyVars, lapsVars>>

-----------------------------------------------------------------------------
(* TokenManager                                                            *)

TOKEN_REFRESH_MARGIN == 30000

\* bounds of the token model
MaxTicks     == 2
NumCallers   == 2
MaxExchanges == 2
TimeStep     == TOKEN_REFRESH_MARGIN

Callers == 1..NumCallers
\* two client identities: the one configured first and the one that replaces it
Creds   == {1, 2}
\* expires_in values (seconds) the identity provider may answer with: a
\* lifetime below the refresh margin, and one between the margin and the
\* 60 s threshold of the auto-refresh interval
ExpiresIn == {20, 45}

NoToken   == 0
NoExpiry  == 0
NoPromise == 0
NoConfig  == 0
Err       == -1

\* the token string the identity provider issues names the exchange that
\* asked for it and the client credentials it was issued to
TokenBase == 10
Token(x) == x.xid * TokenBase + x.cred
IssuedTo(token) == token % TokenBase

\* a getToken() call: where it is, the exchange it awaits, what it resolved
\* with, and (cfg) while it waits, the credentials configured when it started
IdleCall == [pc |-> "idle", role |-> "none", xid |-> 0, result |-> 0,
             margin |-> 0, cfg |-> NoConfig]

TokenInit ==
    /\ now = 0
    /\ accessToken = NoToken
    /\ tokenExpiry = NoExpiry
    /\ refreshPromise = NoPromise
    /\ config = NoConfig
    /\ inflight = {}
    /\ nextXid = 1
    /\ calls = [c \in Callers |-> IdleCall]
    /\ refreshTick = FALSE
    /\ timerOwns = 0
    /\ loggedOut = FALSE

\* the clock advances between tasks
Advance ==
    /\ now < MaxTicks * TimeStep
    /\ now' = now + TimeStep
    /\ UNCHANGED <<accessToken, tokenExpiry, refreshPromise, config,
                   inflight, nextXid, calls, refreshTick, timerOwns,
                   loggedOut>>

configure(c) ==
    /\ config' = c
    /\ accessToken' = NoToken
    /\ tokenExpiry' = NoExpiry
    /\ UNCHANGED <<now, refreshPromise, inflight, nextXid, calls, refreshTick,
                   timerOwns, loggedOut>>

isConfigured == config # NoConfig

\* clearToken(), lines 126-130 (notifyListeners() hands null to the listeners)
clearToken ==
    /\ accessToken # NoToken \/ tokenExpiry # NoExpiry
    /\ accessToken' = NoToken
    /\ tokenExpiry' = NoExpiry
    /\ UNCHANGED <<now, refreshPromise, config, inflight, nextXid, calls,
                   refreshTick, timerOwns, loggedOut>>

\* useAuthStore.clearCredentials, store/index.ts lines 92-101: the logout.
\* The interval is stopped and clearToken() is called; the store's own
\* fields are not read by the TokenManager
clearCredentials ==
    /\ accessToken' = NoToken
    /\ tokenExpiry' = NoExpiry
    /\ loggedOut' = TRUE
    /\ UNCHANGED <<now, refreshPromise, config, inflight, nextXid, calls,
                   refreshTick, timerOwns>>

isAuthenticated ==
    accessToken # NoToken /\ tokenExpiry # NoExpiry /\ now < tokenExpiry

\* faulty variant of CacheValid: the margin is forgotten
CacheValidNoMargin ==
    accessToken # NoToken /\ tokenExpiry # NoExpiry /\ now < tokenExpiry

\* getToken(), line 65: the cached token is valid beyond the margin
CacheValid ==
    /\ accessToken # NoToken
    /\ tokenExpiry # NoExpiry
    /\ now < tokenExpiry - TOKEN_REFRESH_MARGIN

\* faulty variant of Joins: the in-flight refresh is not joined
JoinsNever(p) == FALSE

\* getToken(), line 70: join the refresh that is in flight
Joins(p) == p # NoPromise

\* getToken() up to its first suspension point
getToken(c) ==
    /\ calls[c].pc = "idle"
    /\ IF CacheValid
       THEN /\ calls' = [calls EXCEPT ![c] =
                  [pc |-> "done", role |-> "cache", xid |-> 0,
                   result |-> accessToken, margin |-> tokenExpiry - now,
                   cfg |-> NoConfig]]
            /\ UNCHANGED <<refreshPromise, inflight, nextXid>>
       ELSE IF Joins(refreshPromise)
       THEN /\ calls' = [calls EXCEPT ![c] =
                  [pc |-> "waiting", role |-> "joiner", xid |-> refreshPromise,
                   result |-> 0, margin |-> 0, cfg |-> config]]
            /\ UNCHANGED <<refreshPromise, inflight, nextXid>>
       ELSE IF config = NoConfig
       \* refreshToken() throws before any request; the rejected promise
       \* is awaited and the finally block clears refreshPromise
       THEN /\ calls' = [calls EXCEPT ![c] =
                  [pc |-> "done", role |-> "owner", xid |-> 0,
                   result |-> Err, margin |-> 0, cfg |-> NoConfig]]
            /\ UNCHANGED <<refreshPromise, inflight, nextXid>>
       ELSE /\ nextXid <= MaxExchanges
            /\ refreshPromise' = nextXid
            /\ inflight' = inflight \cup {[xid |-> nextXid, cred |-> config]}
            /\ nextXid' = nextXid + 1
            /\ calls' = [calls EXCEPT ![c] =
                  [pc |-> "waiting", role |-> "owner", xid |-> nextXid,
                   result |-> 0, margin |-> 0, cfg |-> config]]
    /\ loggedOut' = FALSE
    /\ UNCHANGED <<now, accessToken, tokenExpiry, config, refreshTick, timerOwns>>

\* faulty variant of Settle: only the call that started the exchange settles
SettleOwnerOnly(x, r, e) ==
    [c \in Callers |->
        IF calls[c].pc = "waiting" /\ calls[c].xid = x /\ calls[c].role = "owner"
        THEN [calls[c] EXCEPT !.pc = "done", !.result = r, !.margin = e,
                              !.cfg = NoConfig]
        ELSE calls[c]]

\* every call awaiting exchange x settles with result r
Settle(x, r, e) ==
    [c \in Callers |->
        IF calls[c].pc = "waiting" /\ calls[c].xid = x
        THEN [calls[c] EXCEPT !.pc = "done", !.result = r, !.margin = e,
                              !.cfg = NoConfig]
        ELSE calls[c]]

OwnerWaits(x) ==
    \/ \E c \in Callers : calls[c].pc = "waiting" /\ calls[c].xid = x
                          /\ calls[c].role = "owner"
    \/ timerOwns = x

\* the identity provider answers 200: refreshToken() lines 111-120
\* (notifyListeners() hands accessToken' to the listeners), then the
\* owner's finally block (line 81) and the joiners' continuations
ExchangeSucceed(x, e) ==
    /\ x \in inflight
    /\ inflight' = inflight \ {x}
    /\ accessToken' = Token(x)
    /\ tokenExpiry' = now + e * 1000
    /\ calls' = Settle(x.xid, Token(x), (now + e * 1000) - now)
    /\ refreshPromise' = IF OwnerWaits(x.xid) THEN NoPromise ELSE refreshPromise
    /\ timerOwns' = IF timerOwns = x.xid THEN 0 ELSE timerOwns
    /\ UNCHANGED <<now, config, nextXid, refreshTick, loggedOut>>

\* the request fails or answers non-2xx: refreshToken() lines 106-109
ExchangeFail(x) ==
    /\ x \in inflight
    /\ inflight' = inflight \ {x}
    /\ calls' = Settle(x.xid, Err, 0)
    /\ refreshPromise' = IF OwnerWaits(x.xid) THEN NoPromise ELSE refreshPromise
    /\ timerOwns' = IF timerOwns = x.xid THEN 0 ELSE timerOwns
    /\ UNCHANGED <<now, accessToken, tokenExpiry, config, nextXid, refreshTick,
                   loggedOut>>

\* the caller consumes the result and may call again
Return(c) ==
    /\ calls[c].pc = "done"
    /\ calls' = [calls EXCEPT ![c] = IdleCall]
    /\ UNCHANGED <<now, accessToken, tokenExpiry, refreshPromise, config,
                   inflight, nextXid, refreshTick, timerOwns,
                   loggedOut>>

\* getTimeUntilExpiry(), lines 152-155 (NoExpiry = null)
getTimeUntilExpiry ==
    IF tokenExpiry = NoExpiry THEN NoExpiry
    ELSE IF tokenExpiry - now > 0 THEN tokenExpiry - now ELSE 0

\* the interval callback decides to refresh, line 172
ExpiresSoon ==
    /\ tokenExpiry # NoExpiry
    /\ getTimeUntilExpiry < 60000
    /\ isConfigured

\* the callback of the startAutoRefresh interval, lines 168-178: when the
\* token expires soon it calls getToken() and awaits it; the result is not
\* used and a rejection is logged
AutoRefreshTick ==
    /\ refreshTick' = ~refreshTick
    /\ IF ExpiresSoon /\ ~CacheValid /\ ~Joins(refreshPromise)
       \* getToken() starts a refresh, lines 75-76
       THEN /\ nextXid <= MaxExchanges
            /\ refreshPromise' = nextXid
            /\ inflight' = inflight \cup {[xid |-> nextXid, cred |-> config]}
            /\ nextXid' = nextXid + 1
            /\ timerOwns' = nextXid
       \* no call; or getToken() returns the cached token, lines 65-67; or it
       \* returns the promise of the refresh in flight, lines 70-72
       ELSE UNCHANGED <<refreshPromise, inflight, nextXid, timerOwns>>
    /\ loggedOut' = IF ExpiresSoon THEN FALSE ELSE loggedOut
    /\ UNCHANGED <<now, accessToken, tokenExpiry, config, calls>>

TokenNext ==
    \/ Advance /\ UNCHANGED othersToken
    \/ \E c \in Creds : configure(c) /\ UNCHANGED othersToken
    \/ clearToken /\ UNCHANGED othersToken
    \/ \E c \in Callers : getToken(c) /\ UNCHANGED othersToken
    \/ \E x \in inflight, e \in ExpiresIn :
          ExchangeSucceed(x, e) /\ UNCHANGED othersToken
    \/ \E x \in inflight : ExchangeFail(x) /\ UNCHANGED othersToken
    \/ \E c \in Callers : Return(c) /\ UNCHANGED othersToken

\* the TokenManager with the auth store's logout
AuthNext ==
    \/ TokenNext
    \/ clearCredentials /\ UNCHANGED othersToken

\* the TokenManager with startAutoRefresh() called: the interval runs
RefreshNext ==
    \/ TokenNext
    \/ AutoRefreshTick /\ UNCHANGED othersToken

-----------------------------------------------------------------------------
(* Claims about the TokenManager                                           *)

GotToken(c) == calls[c].pc = "done" /\ calls[c].result > 0

\* C1: single-flight refresh. At most one credential exchange is in flight;
\* every getToken() call that is pending awaits that one exchange (calls that
\* overlap are pending together, so they share it), and all calls bound to
\* one exchange settle with the same outcome, the same token on success.
C1_SingleFlight ==
    /\ Cardinality(inflight) <= 1
    /\ \A c \in Callers :
          calls[c].pc = "waiting" =>
             /\ refreshPromise = calls[c].xid
             /\ \E x \in inflight : x.xid = calls[c].xid
    /\ \A c1, c2 \in Callers :
          (/\ calls[c1].pc = "done" /\ calls[c2].pc = "done"
           /\ calls[c1].xid # 0 /\ calls[c1].xid = calls[c2].xid)
          => calls[c1].result = calls[c2].result

\* C1 witness: an owner and a joiner of the same exchange both hold its token
C1_Witness ==
    \E c1, c2 \in Callers :
        /\ c1 # c2
        /\ GotToken(c1) /\ GotToken(c2)
        /\ calls[c1].role = "owner" /\ calls[c2].role = "joiner"
        /\ calls[c1].xid = calls[c2].xid
        /\ calls[c1].result = calls[c2].result

\* C5 (as claimed): no getToken() call resolves with a token that expires
\* less than 30 s after the instant it is returned, whatever its origin.
C5_MarginAlways ==
    \A c \in Callers : GotToken(c) => calls[c].margin >= TOKEN_REFRESH_MARGIN

\* C5 (amended): a token returned from the cache never expires less than
\* 30 s after the instant it is returned; a token coming from an exchange is
\* returned with the lifetime the identity provider gave it.
C5_CacheMargin ==
    \A c \in Callers :
        (GotToken(c) /\ calls[c].role = "cache")
        => calls[c].margin >= TOKEN_REFRESH_MARGIN

\* C5 witness: a cache hit was served while another call got a fresh token
\* from an exchange
C5_Witness ==
    \E c1, c2 \in Callers :
        /\ GotToken(c1) /\ calls[c1].role = "cache"
        /\ GotToken(c2) /\ calls[c2].role = "owner"

\* C12: identity isolation on configure(). The cache never holds a token
\* that was issued to credentials other than the configured ones, and no
\* getToken() call resolves with a token issued to credentials other than
\* those configured when the call started.
C12_IdentityIsolation ==
    /\ [](accessToken # NoToken => IssuedTo(accessToken) = config)
    /\ [][\A c \in Callers :
             (calls[c].pc # "done" /\ calls'[c].pc = "done"
              /\ calls'[c].result > 0)
             => IssuedTo(calls'[c].result) =
                   (IF calls[c].pc = "waiting" THEN calls[c].cfg ELSE config)
         ]_vars

\* an exchange has just failed: it left the in-flight set without its token
\* reaching the cache
Failed(x) == x \notin inflight' /\ accessToken' # Token(x)

\* C19: exchange failure handling. When an exchange fails, every getToken()
\* call awaiting it rejects with the error, the cached token and expiry are
\* left as they were and the in-flight marker is cleared; the same holds for
\* a call made with no credentials configured. The marker is never set
\* without an exchange in flight, so the next call starts a new exchange.
C19_FailureHandling ==
    [][/\ \A x \in inflight :
             Failed(x) =>
                /\ \A c \in Callers :
                      (calls[c].pc = "waiting" /\ calls[c].xid = x.xid)
                      => (calls'[c].pc = "done" /\ calls'[c].result = Err)
                /\ accessToken' = accessToken
                /\ tokenExpiry' = tokenExpiry
                /\ refreshPromise' = NoPromise
       /\ \A c \in Callers :
             (/\ calls[c].pc = "idle" /\ calls'[c].pc # "idle"
              /\ config = NoConfig /\ ~CacheValid /\ refreshPromise = NoPromise)
             => /\ calls'[c].pc = "done" /\ calls'[c].result = Err
                /\ accessToken' = accessToken
                /\ tokenExpiry' = tokenExpiry
                /\ refreshPromise' = NoPromise
       /\ refreshPromise' # NoPromise =>
             \E x \in inflight' : x.xid = refreshPromise'
      ]_vars

\* C19 witness: an owner and a joiner of one exchange both hold its error,
\* the token cached by an earlier exchange is still there and the in-flight
\* marker is clear
C19_Witness ==
    \E c1, c2 \in Callers :
        /\ calls[c1].pc = "done" /\ calls[c1].role = "owner"
        /\ calls[c2].pc = "done" /\ calls[c2].role = "joiner"
        /\ calls[c1].xid = calls[c2].xid
        /\ calls[c1].result = Err /\ calls[c2].result = Err
        /\ accessToken # NoToken
        /\ refreshPromise = NoPromise


\* C23: proactive refresh. Whenever the interval callback runs while
\* credentials are configured and the cached token expires in less than
\* 60 s, a credential exchange is in flight when the callback suspends: it
\* started one or it awaits the one already in flight.
C23_ProactiveRefresh ==
    [][(/\ refreshTick' # refreshTick
        /\ isConfigured
        /\ accessToken # NoToken /\ tokenExpiry # NoExpiry
        /\ tokenExpiry - now < 60000)
        => (/\ refreshPromise' # NoPromise
            /\ \E x \in inflight' : x.xid = refreshPromise')]_vars

\* C28: logout clears the credential session. From the logout until a
\* caller starts a new getToken(), the manager holds no token and
\* isAuthenticated() is false: an exchange in flight at the logout puts no
\* token back into the cache (the listeners are notified with the cache's
\* token whenever it is written).
C28_LogoutClears ==
    loggedOut =>
       /\ accessToken = NoToken
       /\ ~isAuthenticated
-----------------------------------------------------------------------------
(* RedMistSignalRClient                                                    *)

NoConnection == "null"
NoEvent == 0
NoCar == "null"

EventIds   == {1, 2}
CarNumbers == {"7"}
\* bound: subscriptions the owner holds at a time
MaxSubs == 2

\* previousRetryCount is counted up to here; the retry policy answers every
\* larger count as it answers this one
MaxRetryCount == 3

\* the retry policy's "stop reconnecting" answer (null)
NoRetry == -1

\* the state of the automatic reconnect loop
retryState == <<previousRetryCount, reachable, retryTick>>

\* withAutomaticReconnect policy, lines 1463-1471: the delay before the next
\* reconnect attempt, or NoRetry to give up
nextRetryDelayInMilliseconds(count) ==
    IF count = 0 THEN 0
    ELSE IF count = 1 THEN 2000
    ELSE IF count = 2 THEN 10000
    ELSE 30000

\* a subscription, and a hub call (invoke or stop)
Sub(k, e, c)  == [kind |-> k, ev |-> e, car |-> c]
Call(m, k, e, c) == [m |-> m, kind |-> k, ev |-> e, car |-> c]
StopCall == Call("stop", "none", NoEvent, NoCar)

ConnInit ==
    /\ connection = NoConnection
    /\ connectionState = "disconnected"
    /\ subscribedEventId = NoEvent
    /\ subscribedCar = NoCar
    /\ active = {}
    /\ serverSubs = {}
    /\ hubLog = <<>>
    /\ thrown = FALSE
    /\ connectTick = FALSE
    /\ previousRetryCount = 0
    /\ reachable = TRUE
    /\ retryTick = FALSE
    /\ onErrorCalled = FALSE

\* connect(), lines 1447-1502: up to the await of connection.start()
connect ==
    /\ onErrorCalled' = FALSE
    /\ connectTick' = ~connectTick
    /\ thrown' = FALSE
    /\ hubLog' = <<>>
    /\ IF connection # NoConnection
       THEN UNCHANGED <<connection, connectionState>>
       ELSE /\ connectionState' = "connecting"
            /\ connection' = "Connecting"
    /\ UNCHANGED <<subscribedEventId, subscribedCar, active, serverSubs>>
    /\ UNCHANGED retryState

\* connect(), lines 1503-1504: start() resolved
StartOk ==
    /\ onErrorCalled' = FALSE
    /\ connection = "Connecting"
    /\ connection' = "Connected"
    /\ connectionState' = "connected"
    /\ thrown' = FALSE
    /\ UNCHANGED <<subscribedEventId, subscribedCar, active, serverSubs,
                   hubLog, connectTick>>
    /\ UNCHANGED retryState

\* connect(), lines 1505-1510: start() rejected
StartFail ==
    /\ onErrorCalled' = FALSE
    /\ connection = "Connecting"
    /\ connection' = NoConnection
    /\ connectionState' = "disconnected"
    /\ thrown' = TRUE
    /\ UNCHANGED <<subscribedEventId, subscribedCar, active, serverSubs,
                   hubLog, connectTick>>
    /\ UNCHANGED retryState

\* connection.invoke(): can only succeed on a connected hub
InvokeMay(ok) == ok => connection = "Connected"

\* subscribeToEvent / subscribeToControlLogs / subscribeToCarControlLogs /
\* subscribeToInCarDriverEvent, lines 1597-1693
subscribe(k, e, c, ok) ==
    /\ onErrorCalled' = FALSE
    /\ connection # NoConnection
    /\ Cardinality(active \cup {Sub(k, e, c)}) <= MaxSubs
    /\ InvokeMay(ok)
    /\ hubLog' = <<Call("subscribe", k, e, c)>>
    /\ thrown' = ~ok
    /\ subscribedEventId' = IF ok /\ k = "event" THEN e ELSE subscribedEventId
    /\ subscribedCar' = IF ok /\ k = "incar" THEN c ELSE subscribedCar
    /\ active' = IF ok THEN active \cup {Sub(k, e, c)} ELSE active
    /\ serverSubs' = IF ok THEN serverSubs \cup {Sub(k, e, c)} ELSE serverSubs
    /\ UNCHANGED <<connection, connectionState, connectTick>>
    /\ UNCHANGED retryState

\* unsubscribeFromEvent / unsubscribeFromControlLogs /
\* unsubscribeFromInCarDriverEvent, lines 1615-1710 (errors are caught)
unsubscribe(k, e, c, ok) ==
    /\ onErrorCalled' = FALSE
    /\ connection # NoConnection
    /\ Cardinality(active \cup {Sub(k, e, c)}) <= MaxSubs
    /\ InvokeMay(ok)
    /\ hubLog' = <<Call("unsubscribe", k, e, c)>>
    /\ thrown' = FALSE
    /\ subscribedEventId' = IF ok /\ k = "event" /\ subscribedEventId = e
                            THEN NoEvent ELSE subscribedEventId
    /\ subscribedCar' = IF ok /\ k = "incar" /\ subscribedCar = c
                        THEN NoCar ELSE subscribedCar
    /\ active' = IF ok THEN active \ {Sub(k, e, c)} ELSE active
    /\ serverSubs' = IF ok THEN serverSubs \ {Sub(k, e, c)} ELSE serverSubs
    /\ UNCHANGED <<connection, connectionState, connectTick>>
    /\ UNCHANGED retryState

\* onreconnecting handler, lines 1476-1479: the transport lost the connection;
\* the server forgets the subscriptions of the old connection id and the
\* reconnect loop starts with previousRetryCount 0
ConnectionLost ==
    /\ onErrorCalled' = FALSE
    /\ connection = "Connected"
    /\ connection' = "Reconnecting"
    /\ connectionState' = "reconnecting"
    /\ serverSubs' = {}
    /\ hubLog' = <<>>
    /\ thrown' = FALSE
    /\ previousRetryCount' = 0
    /\ reachable' = FALSE
    /\ UNCHANGED <<subscribedEventId, subscribedCar, active, connectTick,
                   retryTick>>

\* the hub becomes reachable again while the client is reconnecting
TransportRestored ==
    /\ onErrorCalled' = FALSE
    /\ connection = "Reconnecting"
    /\ ~reachable
    /\ reachable' = TRUE
    /\ UNCHANGED <<connection, connectionState, subscribedEventId,
                   subscribedCar, active, serverSubs, hubLog, thrown,
                   connectTick, previousRetryCount, retryTick>>

\* one round of the reconnect loop against an unreachable hub: the policy
\* (lines 1463-1471) gave a delay, the attempt made after it failed
RetryFailed ==
    /\ onErrorCalled' = FALSE
    /\ connection = "Reconnecting"
    /\ ~reachable
    /\ nextRetryDelayInMilliseconds(previousRetryCount) # NoRetry
    /\ previousRetryCount' = IF previousRetryCount < MaxRetryCount
                           THEN previousRetryCount + 1 ELSE MaxRetryCount
    /\ retryTick' = ~retryTick
    /\ UNCHANGED <<connection, connectionState, subscribedEventId,
                   subscribedCar, active, serverSubs, hubLog, thrown,
                   connectTick, reachable>>

\* resubscribe(), lines 1715-1724: the subscribe calls it would make, in order
ResubscribePlan ==
    (IF subscribedEventId # NoEvent
     THEN << Sub("event", subscribedEventId, NoCar),
             Sub("ctl", subscribedEventId, NoCar) >>
     ELSE <<>>)
    \o
    (IF subscribedEventId # NoEvent /\ subscribedCar # NoCar
     THEN << Sub("incar", subscribedEventId, subscribedCar) >>
     ELSE <<>>)

\* onreconnected handler, lines 1481-1487, with resubscribe(): the first nOk
\* calls of the plan succeed; the next one, if any, fails and its error ends
\* resubscribe()
Reconnected(nOk) ==
    /\ onErrorCalled' = FALSE
    /\ connection = "Reconnecting"
    /\ reachable
    /\ nextRetryDelayInMilliseconds(previousRetryCount) # NoRetry
    /\ nOk \in 0..Len(ResubscribePlan)
    /\ connection' = "Connected"
    /\ connectionState' = "connected"
    /\ LET plan   == ResubscribePlan
           issued == IF nOk < Len(plan) THEN nOk + 1 ELSE nOk
       IN /\ hubLog' = [i \in 1..issued |->
                          Call("subscribe", plan[i].kind, plan[i].ev, plan[i].car)]
          /\ serverSubs' = {plan[i] : i \in 1..nOk}
          /\ active' = active \cup {plan[i] : i \in 1..nOk}
          /\ thrown' = (nOk < Len(plan))
    /\ previousRetryCount' = 0
    /\ UNCHANGED <<subscribedEventId, subscribedCar, connectTick, reachable,
                   retryTick>>

\* onclose handler, lines 1489-1496: the transport reports the connection
\* closed (the server closed it, or the reconnect loop gave up because the
\* retry policy answered NoRetry); this.connection is kept. error: whether
\* the close carries an error, which is then passed to callbacks.onError
TransportClose(error) ==
    /\ onErrorCalled' = error
    /\ \/ connection = "Connected"
       \/ /\ connection = "Reconnecting"
          /\ nextRetryDelayInMilliseconds(previousRetryCount) = NoRetry
    /\ connection' = "Disconnected"
    /\ connectionState' = "disconnected"
    /\ serverSubs' = {}
    /\ active' = {}
    /\ hubLog' = <<>>
    /\ thrown' = FALSE
    /\ previousRetryCount' = 0
    /\ reachable' = TRUE
    /\ UNCHANGED <<subscribedEventId, subscribedCar, connectTick, retryTick>>

\* disconnect(), lines 1729-1753. okEvent / okCar: whether the event and the
\* in-car unsubscribe invocations succeed
disconnect(okEvent, okCar) ==
    /\ onErrorCalled' = FALSE
    /\ connection # NoConnection
    /\ InvokeMay(okEvent) /\ InvokeMay(okCar)
    /\ LET ev1  == subscribedEventId
           \* after unsubscribeFromEvent(ev1), line 1735
           ev2  == IF ev1 # NoEvent /\ okEvent THEN NoEvent ELSE ev1
           part1 == IF ev1 # NoEvent
                    THEN << Call("unsubscribe", "event", ev1, NoCar),
                            Call("unsubscribe", "ctl", ev2, NoCar) >>
                    ELSE <<>>
           part2 == IF ev2 # NoEvent /\ subscribedCar # NoCar
                    THEN << Call("unsubscribe", "incar", ev2, subscribedCar) >>
                    ELSE <<>>
       IN hubLog' = part1 \o part2 \o <<StopCall>>
    /\ connection' = NoConnection
    /\ subscribedEventId' = NoEvent
    /\ subscribedCar' = NoCar
    /\ connectionState' = "disconnected"
    /\ serverSubs' = {}
    /\ active' = {}
    /\ thrown' = FALSE
    /\ previousRetryCount' = 0
    /\ reachable' = TRUE
    /\ UNCHANGED <<connectTick, retryTick>>

SubArgs ==
    {<<"event", e, NoCar>> : e \in EventIds}
    \cup {<<"ctl", e, NoCar>> : e \in EventIds}
    \cup {<<k, e, c>> : k \in {"carctl", "incar"}, e \in EventIds, c \in CarNumbers}

UnsubArgs == {a \in SubArgs : a[1] # "carctl"}

ConnNext ==
    \/ connect /\ UNCHANGED othersConn
    \/ StartOk /\ UNCHANGED othersConn
    \/ StartFail /\ UNCHANGED othersConn
    \/ \E a \in SubArgs, ok \in BOOLEAN :
          subscribe(a[1], a[2], a[3], ok) /\ UNCHANGED othersConn
    \/ \E a \in UnsubArgs, ok \in BOOLEAN :
          unsubscribe(a[1], a[2], a[3], ok) /\ UNCHANGED othersConn
    \/ ConnectionLost /\ UNCHANGED othersConn
    \/ TransportRestored /\ UNCHANGED othersConn
    \/ RetryFailed /\ UNCHANGED othersConn
    \/ \E n \in 0..3 : Reconnected(n) /\ UNCHANGED othersConn
    \/ \E error \in BOOLEAN : TransportClose(error) /\ UNCHANGED othersConn
    \/ \E okE, okC \in BOOLEAN :
          disconnect(okE, okC) /\ UNCHANGED othersConn

-----------------------------------------------------------------------------
(* Claims about the RedMistSignalRClient                                   *)

\* the subscriptions a sequence of hub calls asks the server for
IssuedSubs(log) ==
    {Sub(log[i].kind, log[i].ev, log[i].car) :
        i \in {j \in 1..Len(log) : log[j].m = "subscribe"}}

\* C2: after a connected -> reconnecting -> connected cycle in which no
\* re-issued call fails, the subscribe calls re-issued are exactly the
\* subscriptions that were active before the connection was lost.
C2_ResubscribeExact ==
    [][(connection = "Reconnecting" /\ connection' = "Connected" /\ ~thrown')
        => IssuedSubs(hubLog') = active]_vars

\* C6: a connect() call made while the connection state is disconnected
\* moves the state to connecting, however disconnected was reached.
C6_ConnectFromDisconnected ==
    [][(connectTick' # connectTick /\ connectionState = "disconnected")
        => connectionState' = "connecting"]_vars

\* C7: disconnect() issues, before the transport stop call, an unsubscribe
\* call for every event, control-log and in-car subscription active when it
\* is called, with the identifiers the subscription was made with.
C7_UnsubscribeBeforeStop ==
    [][(/\ connection # NoConnection /\ connection' = NoConnection
        /\ hubLog' # <<>> /\ hubLog'[Len(hubLog')] = StopCall)
        => \A s \in active :
              s.kind \in {"event", "ctl", "incar"} =>
                 \E i \in 1..(Len(hubLog') - 1) :
                    hubLog'[i] = Call("unsubscribe", s.kind, s.ev, s.car)]_vars

\* the reconnect loop runs on the library's timers: a pending attempt is
\* eventually made, and a loop that gave up eventually reports the close
ConnFairness ==
    /\ WF_vars(RetryFailed /\ UNCHANGED othersConn)
    /\ WF_vars(\E n \in 0..3 : Reconnected(n) /\ UNCHANGED othersConn)
    /\ WF_vars((\E error \in BOOLEAN : TransportClose(error))
               /\ connection = "Reconnecting"
               /\ UNCHANGED othersConn)

\* C13: bounded reconnection. Once the live channel is lost, and unless the
\* hub becomes reachable again, the client makes only finitely many reconnect
\* attempts and then reaches the disconnected state; it does not remain in
\* reconnecting forever.
C13_BoundedReconnection ==
    (connectionState = "reconnecting" /\ ~reachable)
        ~> (connectionState = "disconnected" \/ reachable)


\* C21: resubscribe failure is not silent. When the client comes back to
\* connected after a reconnect and a subscription that was active before the
\* loss is not registered again (its re-issue failed or was never attempted),
\* the owner is told: the error callback is invoked or the connection state
\* is not left at connected.
C21_ResubscribeFailureSurfaced ==
    [][(/\ connection = "Reconnecting" /\ connection' = "Connected"
        /\ ~(active \subseteq serverSubs'))
        => (onErrorCalled' \/ connectionState' # "connected")]_vars
-----------------------------------------------------------------------------
(* useSessionStore: REST polling session store                             *)

NoSession == 0
NoTimer   == 0
NoPayload == "null"
FLAG_GREEN     == 1
FLAG_CHECKERED == 5

\* bound: connectToLive() calls (one interval timer each at most)
MaxLive == 2
LiveIds == 1..MaxLive

\* what a fetchSessionState() run leaves in the store: a session (live, or
\* the historical fallback) with its flag and cars, or nothing at all
FetchOutcomes ==
    {[found |-> TRUE, flag |-> f, cars |-> cs] :
        f \in {FLAG_GREEN, FLAG_CHECKERED}, cs \in {<<>>, <<"7">>}}
    \cup {[found |-> FALSE, flag |-> NoSession, cars |-> <<>>]}

StoreInit ==
    /\ sessionState = NoSession
    /\ carPositions = <<>>
    /\ controlLog = <<>>
    /\ inCarPayload = NoPayload
    /\ isConnected = FALSE
    /\ storeConnectionState = "disconnected"
    /\ pollTimers = {}
    /\ windowPollInterval = NoTimer
    /\ liveCalls = [k \in LiveIds |-> "none"]
    /\ tickFetches = {}
    /\ inCarPending = FALSE
    /\ torn = FALSE

\* connectToLive(), lines 618-623: the call, up to the first await
connectToLive(k) ==
    /\ liveCalls[k] = "none"
    /\ \A j \in LiveIds : j < k => liveCalls[j] # "none"
    /\ liveCalls' = [liveCalls EXCEPT ![k] = "fetchState"]
    /\ torn' = FALSE
    /\ UNCHANGED <<sessionState, carPositions, controlLog, inCarPayload,
                   isConnected, storeConnectionState, pollTimers,
                   windowPollInterval, tickFetches, inCarPending>>

\* fetchSessionState(), lines 538-607, when its requests have answered
ApplyFetch(r) ==
    /\ sessionState' = IF r.found THEN r.flag ELSE sessionState
    /\ carPositions' = IF r.found THEN r.cars ELSE carPositions

\* connectToLive(), line 623 resolved, line 624 started
LiveStateFetched(k, r) ==
    /\ liveCalls[k] = "fetchState"
    /\ r \in FetchOutcomes
    /\ ApplyFetch(r)
    /\ liveCalls' = [liveCalls EXCEPT ![k] = "fetchLog"]
    /\ UNCHANGED <<controlLog, inCarPayload, isConnected, storeConnectionState,
                   pollTimers, windowPollInterval, tickFetches, inCarPending,
                   torn>>

\* connectToLive(), lines 627-634: no polling for a completed session
StartsPolling(flag) == flag # FLAG_CHECKERED

\* connectToLive(), line 624 resolved (fetchControlLog, lines 609-616), then
\* lines 627-660
LiveLogFetched(k, ok) ==
    /\ liveCalls[k] = "fetchLog"
    /\ controlLog' = IF ok THEN <<"entry">> ELSE controlLog
    /\ IF StartsPolling(sessionState)
       THEN /\ pollTimers' = pollTimers \cup {k}
            /\ windowPollInterval' = k
       ELSE UNCHANGED <<pollTimers, windowPollInterval>>
    /\ isConnected' = TRUE
    /\ storeConnectionState' = "connected"
    /\ liveCalls' = [liveCalls EXCEPT ![k] = "done"]
    /\ UNCHANGED <<sessionState, carPositions, inCarPayload, tickFetches,
                   inCarPending, torn>>

\* the interval callback, lines 642-655, up to its await
PollTick(t) ==
    /\ t \in pollTimers
    /\ t \notin tickFetches
    /\ IF sessionState = FLAG_CHECKERED
       THEN /\ pollTimers' = pollTimers \ {t}
            /\ UNCHANGED tickFetches
       ELSE /\ tickFetches' = tickFetches \cup {t}
            /\ UNCHANGED pollTimers
    /\ UNCHANGED <<sessionState, carPositions, controlLog, inCarPayload,
                   isConnected, storeConnectionState, windowPollInterval,
                   liveCalls, inCarPending, torn>>

\* the interval callback, line 651 resolved
PollFetched(t, r) ==
    /\ t \in tickFetches
    /\ r \in FetchOutcomes
    /\ ApplyFetch(r)
    /\ tickFetches' = tickFetches \ {t}
    /\ UNCHANGED <<controlLog, inCarPayload, isConnected, storeConnectionState,
                   pollTimers, windowPollInterval, liveCalls, inCarPending,
                   torn>>

\* subscribeToInCar(), lines 701-710: the call, and its fetch answering
subscribeToInCar ==
    /\ ~inCarPending
    /\ inCarPending' = TRUE
    /\ UNCHANGED <<sessionState, carPositions, controlLog, inCarPayload,
                   isConnected, storeConnectionState, pollTimers,
                   windowPollInterval, liveCalls, tickFetches, torn>>

InCarFetched(ok) ==
    /\ inCarPending
    /\ inCarPending' = FALSE
    /\ inCarPayload' = IF ok THEN "payload" ELSE inCarPayload
    /\ UNCHANGED <<sessionState, carPositions, controlLog, isConnected,
                   storeConnectionState, pollTimers, windowPollInterval,
                   liveCalls, tickFetches, torn>>

\* disconnect(), lines 669-685
storeDisconnect ==
    /\ pollTimers' = IF windowPollInterval # NoTimer
                     THEN pollTimers \ {windowPollInterval} ELSE pollTimers
    /\ windowPollInterval' = NoTimer
    /\ isConnected' = FALSE
    /\ storeConnectionState' = "disconnected"
    /\ sessionState' = NoSession
    /\ carPositions' = <<>>
    /\ controlLog' = <<>>
    /\ inCarPayload' = NoPayload
    /\ torn' = TRUE
    /\ UNCHANGED <<liveCalls, tickFetches, inCarPending>>

StoreNext ==
    \/ \E k \in LiveIds : connectToLive(k) /\ UNCHANGED othersStore
    \/ \E k \in LiveIds, r \in FetchOutcomes :
          LiveStateFetched(k, r) /\ UNCHANGED othersStore
    \/ \E k \in LiveIds, ok \in BOOLEAN :
          LiveLogFetched(k, ok) /\ UNCHANGED othersStore
    \/ \E t \in LiveIds : PollTick(t) /\ UNCHANGED othersStore
    \/ \E t \in LiveIds, r \in FetchOutcomes :
          PollFetched(t, r) /\ UNCHANGED othersStore
    \/ subscribeToInCar /\ UNCHANGED othersStore
    \/ \E ok \in BOOLEAN : InCarFetched(ok) /\ UNCHANGED othersStore
    \/ storeDisconnect /\ UNCHANGED othersStore

-----------------------------------------------------------------------------
(* Claims about useSessionStore                                            *)

\* C8: once disconnect() has returned and until the next connectToLive()
\* call, no polling timer is active and the in-memory session state is
\* cleared.
C8_TeardownStaysClean ==
    torn =>
       /\ pollTimers = {}
       /\ sessionState = NoSession
       /\ carPositions = <<>>
       /\ controlLog = <<>>
       /\ inCarPayload = NoPayload
       /\ ~isConnected
       /\ storeConnectionState = "disconnected"

-----------------------------------------------------------------------------
(* mergeCompetitorData: the cross-source merge of two UnifiedCompetitors   *)
(* A required field holds its value ("" and 0 are the falsy ones); an      *)
(* optional field holds <<>> (undefined) or <<value>>.                      *)

Infinity == 2000000000

Undefined == <<>>

Max(x, y) == IF x >= y THEN x ELSE y
Min(x, y) == IF x <= y THEN x ELSE y

\* x || y on strings, on numbers, and on optional strings
OrStr(x, y) == IF x # "" THEN x ELSE y
OrNum(x, y) == IF x # 0 THEN x ELSE y
OrOptStr(x, y) == IF x # Undefined /\ x[1] # "" THEN x ELSE y

\* faulty variant of MergeLaps: the difference of the two lap counts
MergeLapsGap(x, y) == Max(x, y) - Min(x, y)

\* faulty variant of MergeLaps: the first record overwrites
MergeLapsFirst(x, y) == x

\* line 621
MergeLaps(x, y) == Max(x, y)

\* lines 623-626
MergeBestLap(x, y) == OrNum(Min(OrNum(x, Infinity), OrNum(y, Infinity)), 0)

\* lines 612-638, both records present
mergeCompetitorData(redmist, raceMonitor) ==
    [ transponder   |-> OrStr(redmist.transponder, raceMonitor.transponder),
      carNumber     |-> OrStr(redmist.carNumber, raceMonitor.carNumber),
      driverName    |-> OrStr(redmist.driverName, raceMonitor.driverName),
      teamName      |-> OrOptStr(redmist.teamName, raceMonitor.teamName),
      className     |-> OrOptStr(redmist.className, raceMonitor.className),
      position      |-> OrNum(redmist.position, raceMonitor.position),
      classPosition |-> redmist.classPosition,
      laps          |-> MergeLaps(redmist.laps, raceMonitor.laps),
      lastLapTime   |-> OrNum(redmist.lastLapTime, raceMonitor.lastLapTime),
      bestLapTime   |-> MergeBestLap(redmist.bestLapTime, raceMonitor.bestLapTime),
      totalTime     |-> OrNum(raceMonitor.totalTime, redmist.totalTime),
      pitCount      |-> redmist.pitCount,
      inPit         |-> redmist.inPit,
      flagStatus    |-> redmist.flagStatus,
      lapHistory    |-> raceMonitor.lapHistory,
      srcRedmist    |-> <<TRUE>>,
      srcRacemonitor |-> <<TRUE>> ]

\* the record redmistToUnified() gives for a typical car (lines 528-544),
\* and the one raceMonitorToUnified() gives (lines 584-597)
BaseRedmist ==
    [ transponder |-> "T1", carNumber |-> "7", driverName |-> "Ann",
      teamName |-> <<"Team A">>, className |-> <<"GT">>,
      position |-> 1, classPosition |-> <<1>>, laps |-> 6,
      lastLapTime |-> 90000, bestLapTime |-> 88000, totalTime |-> 0,
      pitCount |-> <<1>>, inPit |-> <<FALSE>>, flagStatus |-> <<"green">>,
      lapHistory |-> Undefined,
      srcRedmist |-> <<TRUE>>, srcRacemonitor |-> Undefined ]

BaseRaceMonitor ==
    [ transponder |-> "T1", carNumber |-> "7", driverName |-> "Bob",
      teamName |-> <<"Team B">>, className |-> <<"GT">>,
      position |-> 2, classPosition |-> Undefined, laps |-> 5,
      lastLapTime |-> 91000, bestLapTime |-> 89000, totalTime |-> 500000,
      pitCount |-> Undefined, inPit |-> Undefined, flagStatus |-> Undefined,
      lapHistory |-> << <<"green", "yellow">> >>,
      srcRedmist |-> Undefined, srcRacemonitor |-> <<TRUE>> ]

\* the record raceMonitorToUnified() gives for the same car from a later
\* snapshot (lines 584-597)
BaseLater ==
    [ transponder |-> "T1", carNumber |-> "7", driverName |-> "Cy",
      teamName |-> <<"Team C">>, className |-> <<"GT">>,
      position |-> 3, classPosition |-> Undefined, laps |-> 7,
      lastLapTime |-> 92000, bestLapTime |-> 87000, totalTime |-> 600000,
      pitCount |-> Undefined, inPit |-> Undefined, flagStatus |-> Undefined,
      lapHistory |-> << <<"green">> >>,
      srcRedmist |-> Undefined, srcRacemonitor |-> <<TRUE>> ]

\* bound: fields of the inputs changed from the base records
MaxVaried == 2

RequiredStr == {"transponder", "carNumber", "driverName"}
RequiredNum == {"position", "laps", "lastLapTime", "bestLapTime", "totalTime"}
OptionalFields == {"teamName", "className", "classPosition", "pitCount",
                   "inPit", "flagStatus", "lapHistory",
                   "srcRedmist", "srcRacemonitor"}
Fields == RequiredStr \cup RequiredNum \cup OptionalFields

\* the other values a field takes in the inputs
FieldValues(f) ==
    CASE f = "transponder"   -> {"", "T1"}
      [] f = "carNumber"     -> {"", "7"}
      [] f = "driverName"    -> {"", "Ann", "Bob"}
      [] f = "teamName"      -> {Undefined, <<"Team A">>, <<"Team B">>}
      [] f = "className"     -> {Undefined, <<"">>, <<"GT">>}
      [] f = "position"      -> {0, 1, 2}
      [] f = "classPosition" -> {Undefined, <<1>>, <<2>>}
      [] f = "laps"          -> {0, 5, 6}
      [] f = "lastLapTime"   -> {0, 90000, 91000}
      [] f = "bestLapTime"   -> {0, 88000, 89000}
      [] f = "totalTime"     -> {0, 500000, 501000}
      [] f = "pitCount"      -> {Undefined, <<0>>, <<1>>}
      [] f = "inPit"         -> {Undefined, <<FALSE>>, <<TRUE>>}
      [] f = "flagStatus"    -> {Undefined, <<"green">>, <<"yellow">>}
      [] f = "lapHistory"    -> {Undefined, << <<>> >>, << <<"green", "yellow">> >>}
      [] f = "srcRedmist"    -> {Undefined, <<TRUE>>}
      [] f = "srcRacemonitor" -> {Undefined, <<TRUE>>}

MergeInit ==
    /\ mA = BaseRedmist
    /\ mB = BaseRaceMonitor
    /\ mVaried = 0
    /\ mAB = BaseRedmist
    /\ mBA = BaseRedmist
    /\ merged = FALSE
    /\ mC = BaseLater
    /\ mLeft = BaseRedmist
    /\ mRight = BaseRedmist

\* another input pair: one field of one input takes another value
VaryA(f, v) ==
    /\ ~merged
    /\ mVaried < MaxVaried
    /\ v \in FieldValues(f) /\ v # mA[f]
    /\ mA' = [mA EXCEPT ![f] = v]
    /\ mVaried' = mVaried + 1
    /\ UNCHANGED <<mB, mAB, mBA, merged, mC, mLeft, mRight>>

VaryB(f, v) ==
    /\ ~merged
    /\ mVaried < MaxVaried
    /\ v \in FieldValues(f) /\ v # mB[f]
    /\ mB' = [mB EXCEPT ![f] = v]
    /\ mVaried' = mVaried + 1
    /\ UNCHANGED <<mA, mAB, mBA, merged, mC, mLeft, mRight>>

VaryC(f, v) ==
    /\ ~merged
    /\ mVaried < MaxVaried
    /\ v \in FieldValues(f) /\ v # mC[f]
    /\ mC' = [mC EXCEPT ![f] = v]
    /\ mVaried' = mVaried + 1
    /\ UNCHANGED <<mA, mB, mAB, mBA, merged, mLeft, mRight>>

\* the second record is itself a provider-A record, as when the store
\* hands the merge a record it kept from an earlier provider-A snapshot
\* (store/index.ts lines 418-432)
KeptRecord ==
    /\ ~merged
    /\ mVaried = 0
    /\ mB = BaseRaceMonitor
    /\ mB' = BaseRedmist
    /\ UNCHANGED <<mA, mVaried, mAB, mBA, merged, mC, mLeft, mRight>>

\* the merge is applied to the pair, in both argument orders, and to the
\* three records in both groupings
Merge ==
    /\ ~merged
    /\ mAB' = mergeCompetitorData(mA, mB)
    /\ mBA' = mergeCompetitorData(mB, mA)
    /\ mLeft' = mergeCompetitorData(mergeCompetitorData(mA, mB), mC)
    /\ mRight' = mergeCompetitorData(mA, mergeCompetitorData(mB, mC))
    /\ merged' = TRUE
    /\ UNCHANGED <<mA, mB, mC, mVaried>>

MergeNext ==
    \/ \E f \in Fields : \E v \in FieldValues(f) :
          VaryA(f, v) /\ UNCHANGED othersMerge
    \/ \E f \in Fields : \E v \in FieldValues(f) :
          VaryB(f, v) /\ UNCHANGED othersMerge
    \/ \E f \in Fields : \E v \in FieldValues(f) :
          VaryC(f, v) /\ UNCHANGED othersMerge
    \/ KeptRecord /\ UNCHANGED othersMerge
    \/ Merge /\ UNCHANGED othersMerge

-----------------------------------------------------------------------------
(* Claims about mergeCompetitorData                                        *)

AssociativeFields ==
    {"laps", "bestLapTime", "transponder", "carNumber", "driverName",
     "teamName", "className", "position", "lastLapTime", "totalTime"}

\* C16: merge associativity. For any three records a, b, c of one car,
\* merge(merge(a, b), c) and merge(a, merge(b, c)) agree on every
\* numeric-max, numeric-min and prefer-non-null field.
C16_Associative ==
    merged => \A f \in AssociativeFields : mLeft[f] = mRight[f]

\* C16 witness: three records with three different lap counts, the first
\* without a driver name and the other two with different ones, merged in
\* both groupings
C16_Witness ==
    /\ merged
    /\ mA.laps # mB.laps /\ mB.laps # mC.laps /\ mA.laps # mC.laps
    /\ mA.driverName = ""
    /\ mB.driverName # "" /\ mC.driverName # ""
    /\ mB.driverName # mC.driverName
    /\ mLeft.driverName = mB.driverName /\ mRight.driverName = mB.driverName
    /\ mLeft.laps = mC.laps

\* C25: best lap merge. The merged bestLapTime is the smaller of the two
\* inputs' non-zero best-lap times, the single non-zero one when the other
\* is 0 (unknown), and 0 when both are 0; it is always finite and equal to
\* one of the two inputs' values.
C25_BestLapMerge ==
    merged =>
       LET a == mA.bestLapTime
           b == mB.bestLapTime
           r == mAB.bestLapTime
       IN  /\ r # Infinity
           /\ r \in {a, b}
           /\ (a # 0 /\ b # 0) => r = Min(a, b)
           /\ (a = 0 /\ b # 0) => r = b
           /\ (a # 0 /\ b = 0) => r = a
           /\ (a = 0 /\ b = 0) => r = 0

\* C9: a field that is non-null in either input is non-null in the merged
\* record.
C9_NoFieldLoss ==
    merged =>
       /\ \A f \in OptionalFields :
             (mA[f] # Undefined \/ mB[f] # Undefined) => mAB[f] # Undefined
       /\ \A f \in RequiredStr :
             (mA[f] # "" \/ mB[f] # "") => mAB[f] # ""

-----------------------------------------------------------------------------
(* RaceReplay: the snapshot of the field at a requested lap                *)
(* An optional field of a lap record holds <<>> (undefined) or <<value>>.  *)
(* A lap-time string is held as its ':'-separated whole-number parts and   *)
(* the digits after the '.', e.g. "1:40.000" as parts <<1, 40>>, ms <<0>>. *)

\* bound: lap records loaded per car
MaxLaps == 3

ReplayCars == <<"A", "B", "C">>

UNKNOWN_POSITION == 999

\* String(n) for the lap numbers of the model, and parseInt on those strings
DigitStr == <<"1", "2", "3", "4", "5", "6", "7", "8", "9">>
String(num) == DigitStr[num]
parseInt(str) ==
    IF str = "0" THEN 0 ELSE CHOOSE num \in 1..Len(DigitStr) : DigitStr[num] = str

\* x ?? y
Coalesce(x, y) == IF x # Undefined THEN x ELSE y

\* lines 47-60
parseLapTimeToMs(timeStr) ==
    IF timeStr = Undefined THEN 0
    ELSE LET parts == timeStr[1].parts
             ms    == Coalesce(timeStr[1].ms, <<0>>)[1]
         IN  CASE Len(parts) = 2 ->
                    parts[1] * 60000 + parts[2] * 1000 + ms
               [] Len(parts) = 3 ->
                    parts[1] * 3600000 + parts[2] * 60000 + parts[3] * 1000 + ms
               [] OTHER -> 0

\* l.l ?? parseInt(l.ln || '0')   (lines 384, 409, 425-426)
LapNumOf(rec) ==
    IF rec.l # Undefined THEN rec.l[1]
    ELSE parseInt(IF rec.ln # Undefined /\ rec.ln[1] # "" THEN rec.ln[1] ELSE "0")

\* the numbering of a car's records: "cached" rows carry l and ln and are
\* contiguous, "gapped" rows carry l and ln but laps 2 and 3 are missing,
\* "lnOnly" records carry only ln, "unnumbered" records carry neither
Schemes == {"cached", "gapped", "lnOnly", "unnumbered"}

LapNumberAt(sch, i) == IF sch = "gapped" /\ i > 1 THEN i + 2 ELSE i

\* what a car reports on its laps: recorded position fields and lap time
Profiles ==
    { [ovp |-> <<3>>, p |-> <<3>>, llo |-> Undefined, llp |-> <<2>>,
       ltm |-> <<[parts |-> <<1, 40>>, ms |-> <<0>>]>>],
      [ovp |-> <<6>>, p |-> <<6>>, llo |-> <<5>>, llp |-> Undefined,
       ltm |-> <<[parts |-> <<1, 20>>, ms |-> <<0>>]>>],
      [ovp |-> Undefined, p |-> Undefined, llo |-> Undefined, llp |-> Undefined,
       ltm |-> <<[parts |-> <<1, 30>>, ms |-> <<500>>]>>] }

\* one loaded lap record (lines 154-166 for cached rows, 236-262 for API laps)
LapRecord(sch, car, i, prof) ==
    [ n        |-> car,
      c        |-> Undefined,
      l        |-> IF sch \in {"cached", "gapped"}
                   THEN <<LapNumberAt(sch, i)>> ELSE Undefined,
      ln       |-> IF sch = "unnumbered"
                   THEN Undefined ELSE <<String(LapNumberAt(sch, i))>>,
      llo      |-> prof.llo,
      ovp      |-> prof.ovp,
      p        |-> prof.p,
      llp      |-> prof.llp,
      ltm      |-> prof.ltm,
      raw_data |-> <<car, i>> ]

ReplayInit ==
    /\ scheme = "cached"
    /\ allCarsLapData = << >>
    /\ positions = << >>
    /\ currentLap = 1
    /\ replayed = FALSE
    /\ engine = 1
    /\ firstSnapshot = [lap \in 1..MaxLaps |-> Undefined]

\* the lap histories a load can bring for one car: none, or len records
Histories(sch, car) ==
    { << >> } \cup
    { [k \in 1..len |-> LapRecord(sch, car, k, prof)] :
         len \in 1..MaxLaps, prof \in Profiles }

\* lines 168-178, 243-248: one CarLapData per car number
CarLapData(car, laps) ==
    [carNumber |-> car, className |-> <<"GT">>, laps |-> laps]

\* lines 376-387: the entry at index lap - 1, else the first entry whose
\* lap number is lap; 0 when there is none
LapEntryIndex(carData, lap) ==
    IF Len(carData.laps) >= lap THEN lap
    ELSE IF \E k \in 1..Len(carData.laps) : LapNumOf(carData.laps[k]) = lap
         THEN CHOOSE k \in 1..Len(carData.laps) :
                 /\ LapNumOf(carData.laps[k]) = lap
                 /\ \A m \in 1..(k - 1) : LapNumOf(carData.laps[m]) # lap
         ELSE 0

\* faulty variant of CarriesForward: a car behind the requested lap is carried
\* forward only when the replay did not come from a later lap
CarriesForwardFromBehind(carData, lap) ==
    Len(carData.laps) > 0 /\ lap > Len(carData.laps) /\ currentLap <= lap

\* faulty variant of CarriesForward: a car behind the requested lap is left out
CarriesForwardNever(carData, lap) == FALSE

\* line 405
CarriesForward(carData, lap) ==
    Len(carData.laps) > 0 /\ lap > Len(carData.laps)

\* lines 389-418: what one car contributes to positionsAtLap
CandidateOf(carData, lap) ==
    LET k == LapEntryIndex(carData, lap) IN
    IF k # 0
    THEN LET lapEntry == carData.laps[k]
             positionAtLap ==
                 Coalesce(lapEntry.llo,
                    Coalesce(lapEntry.ovp, Coalesce(lapEntry.p, lapEntry.llp)))
         IN  << [lapEntry EXCEPT !.n = carData.carNumber,
                                 !.c = carData.className,
                                 !.ovp = positionAtLap,
                                 !.p = positionAtLap] >>
    ELSE IF CarriesForward(carData, lap)
    THEN LET lastLap == carData.laps[Len(carData.laps)]
         IN  << [lastLap EXCEPT !.n = carData.carNumber,
                                !.c = carData.className,
                                !.l = <<LapNumOf(lastLap)>>] >>
    ELSE << >>

\* lines 367-419: positionsAtLap before it is sorted
RECURSIVE Candidates(_, _, _)
Candidates(lapData, lap, i) ==
    IF i > Len(lapData) THEN << >>
    ELSE CandidateOf(lapData[i], lap) \o Candidates(lapData, lap, i + 1)

\* lines 430-431
RecordedPosition(rec) ==
    Coalesce(rec.ovp, Coalesce(rec.p, Coalesce(rec.llo, <<UNKNOWN_POSITION>>)))[1]

\* lines 424-443: the comparator handed to sort
compare(a, b) ==
    LET lapsA == LapNumOf(a)
        lapsB == LapNumOf(b)
        posA  == RecordedPosition(a)
        posB  == RecordedPosition(b)
    IN  IF lapsA # lapsB THEN lapsB - lapsA
        ELSE IF posA # posB /\ posA # UNKNOWN_POSITION /\ posB # UNKNOWN_POSITION
        THEN posA - posB
        ELSE parseLapTimeToMs(a.ltm) - parseLapTimeToMs(b.ltm)

Orderings(len) ==
    {f \in [1..len -> 1..len] : \A i, j \in 1..len : i # j => f[i] # f[j]}

\* compare() over the elements of cands, as sort consults it
CompareTable(cands) ==
    [i \in 1..Len(cands) |-> [j \in 1..Len(cands) |-> compare(cands[i], cands[j])]]

\* the comparator is a consistent comparator for the elements compared
ConsistentComparator(cmp) ==
    \A i, j, k \in DOMAIN cmp :
       /\ (cmp[i][j] < 0) = (cmp[j][i] > 0)
       /\ (cmp[i][j] <= 0 /\ cmp[j][k] <= 0) => cmp[i][k] <= 0

\* Array.prototype.sort: the stable order under a consistent comparator,
\* an implementation-defined order of the same elements otherwise
SortOrders(cmp) ==
    IF ConsistentComparator(cmp)
    THEN {f \in Orderings(Len(cmp)) :
             \A i, j \in DOMAIN cmp :
                i < j => \/ cmp[f[i]][f[j]] < 0
                         \/ cmp[f[i]][f[j]] = 0 /\ f[i] < f[j]}
    ELSE Orderings(Len(cmp))

\* the sort implementations told apart: as many as there are orders of
\* the cars
Engines == 1..Cardinality(Orderings(Len(ReplayCars)))

\* the place of an order among the orders of the same length
RECURSIVE Rank(_, _)
Rank(f, i) == IF i > Len(f) THEN 0 ELSE f[i] + 4 * Rank(f, i + 1)

\* the sort of one engine is a function of its input: of the orders sort may
\* give for cmp, the one this engine gives
EngineOrder(e, cmp) ==
    LET orders == SortOrders(cmp)
        place  == (e - 1) % Cardinality(orders)
    IN IF Cardinality(orders) = 1 THEN CHOOSE f \in orders : TRUE
       ELSE CHOOSE f \in orders :
               Cardinality({g \in orders : Rank(g, 1) < Rank(f, 1)}) = place

\* lines 366-466
updatePositionsAtLap(lap, lapData) ==
    \E positionsAtLap \in {Candidates(lapData, lap, 1)} :
    \E cmp \in {CompareTable(positionsAtLap)} :
    \E f \in {EngineOrder(engine', cmp)} :
    \E snapshot \in {[i \in 1..Len(positionsAtLap) |->
                        [positionsAtLap[f[i]] EXCEPT !.p = <<i>>, !.ovp = <<i>>]]} :
       /\ positions' = snapshot
       /\ currentLap' = lap
       /\ replayed' = TRUE
       /\ firstSnapshot' = IF firstSnapshot[lap] = Undefined
                           THEN [firstSnapshot EXCEPT ![lap] = <<snapshot>>]
                           ELSE firstSnapshot

\* lines 110-113
RECURSIVE MaxLength(_, _)
MaxLength(lapData, i) ==
    IF i > Len(lapData) THEN 0
    ELSE Max(Len(lapData[i].laps), MaxLength(lapData, i + 1))

\* the engines that can be told apart on the loaded histories: one when
\* every sort of a replay gets a consistent comparator, since every engine
\* then gives the stable order
EnginesFor(lapData) ==
    IF \A lap \in 1..MaxLength(lapData, 1) :
          ConsistentComparator(CompareTable(Candidates(lapData, lap, 1)))
    THEN {1} ELSE Engines

\* lines 117-310: the load effect; the histories arrive, allCarsLapData is
\* set and the snapshot for lap 1 is reconstructed
loadAllLapData ==
    /\ ~replayed
    /\ \E sch \in Schemes :
       \E hA \in Histories(sch, ReplayCars[1]) :
       \E hB \in Histories(sch, ReplayCars[2]) :
       \E hC \in Histories(sch, ReplayCars[3]) :
       \E lapDataArray \in {<<CarLapData(ReplayCars[1], hA),
                              CarLapData(ReplayCars[2], hB),
                              CarLapData(ReplayCars[3], hC)>>} :
          /\ scheme' = sch
          /\ allCarsLapData' = lapDataArray
          /\ engine' \in EnginesFor(lapDataArray)
          /\ updatePositionsAtLap(1, lapDataArray)

maxLap == MaxLength(allCarsLapData, 1)

\* lines 477-480
goToLap(lap) ==
    /\ replayed
    /\ engine' = engine
    /\ updatePositionsAtLap(Max(1, Min(lap, maxLap)), allCarsLapData)
    /\ UNCHANGED <<scheme, allCarsLapData>>

\* lines 482-484
stepForward == goToLap(currentLap + 1)

\* lines 486-488
stepBackward == goToLap(currentLap - 1)

ReplayNext ==
    \/ loadAllLapData /\ UNCHANGED othersReplay
    \/ stepForward /\ UNCHANGED othersReplay
    \/ stepBackward /\ UNCHANGED othersReplay

-----------------------------------------------------------------------------
(* Claims about RaceReplay                                                 *)

EntriesOf(car) == {i \in 1..Len(positions) : positions[i].n = car}

CandidateFor(car) ==
    LET cands == Candidates(allCarsLapData, currentLap, 1)
    IN  cands[CHOOSE i \in 1..Len(cands) : cands[i].n = car]

\* the ordering rule of the claim: a may stand before b
MayPrecede(a, b) ==
    \/ LapNumOf(a) > LapNumOf(b)
    \/ /\ LapNumOf(a) = LapNumOf(b)
       /\ IF RecordedPosition(a) # UNKNOWN_POSITION
             /\ RecordedPosition(b) # UNKNOWN_POSITION
          THEN RecordedPosition(a) <= RecordedPosition(b)
          ELSE parseLapTimeToMs(a.ltm) <= parseLapTimeToMs(b.ltm)

C22_ExplicitLapNumber ==
    replayed =>
       \A i \in 1..Len(allCarsLapData) :
          LET carData  == allCarsLapData[i]
              len      == Len(carData.laps)
              explicit == \A k \in 1..len : carData.laps[k].l # Undefined
              numbered == {k \in 1..len : carData.laps[k].l = <<currentLap>>}
          IN  (len > 0 /\ explicit) =>
                 \A e \in EntriesOf(carData.carNumber) :
                    LET k == positions[e].raw_data[2] IN
                    IF numbered # {}
                    THEN k \in numbered
                    ELSE k = len /\ carData.laps[k].l[1] < currentLap

\* C10: the snapshot is ordered by laps completed descending, among equal
\* laps by recorded position ascending when neither position is the
\* unknown sentinel, otherwise by lap time ascending.
C10_SnapshotOrdered ==
    replayed =>
       \A i, j \in 1..Len(positions) :
          i < j => MayPrecede(CandidateFor(positions[i].n),
                              CandidateFor(positions[j].n))


\* C29: the relation used to sort a snapshot is a consistent total (strict
\* weak) order on the cars of the snapshot: antisymmetric and transitive for
\* every combination of lap counts, recorded positions (known and unknown
\* mixed) and lap times, so that the sorted order is fixed by the relation.
C29_ComparatorConsistent ==
    replayed =>
       LET cmp == CompareTable(Candidates(allCarsLapData, currentLap, 1))
       IN  /\ ConsistentComparator(cmp)
           /\ Cardinality(SortOrders(cmp)) = 1
-----------------------------------------------------------------------------
(* calculateTruePace: green-flag pace of a lap history                     *)
(* A mean is held exactly, as the sum and the count it divides; the        *)
(* returned standard deviation (a square root) is not part of the model.   *)

\* bound: laps in the history
MaxPaceLaps == 4

FlagStatuses == {"green", "yellow", "red"}
LapTimes == {90000, 91000, 140000, 200000}

NoResult == [sum |-> 0, sampleSize |-> -1]

RECURSIVE SumOf(_)
SumOf(times) == IF times = << >> THEN 0 ELSE Head(times) + SumOf(Tail(times))

IsGreen(l) == l.flagStatus = "green"

\* line 702
TimesOf(laps) == [i \in 1..Len(laps) |-> laps[i].lapTime]

\* line 707, t < avg * 1.5 with avg = sum / count
BelowOutlierLimit(t, sum, count) == 2 * t * count < 3 * sum

\* line 705
FiltersOutliers(excludeOutliers, times) == excludeOutliers /\ Len(times) > 3

\* lines 691-721; truePace is sum / sampleSize
calculateTruePaceOf(history, excludeOutliers) ==
    LET greenLaps == SelectSeq(history, IsGreen)
        times     == TimesOf(greenLaps)
        Kept(t)   == BelowOutlierLimit(t, SumOf(times), Len(times))
        kept      == IF FiltersOutliers(excludeOutliers, times)
                     THEN SelectSeq(times, Kept) ELSE times
    IN  IF Len(greenLaps) = 0
        THEN [sum |-> 0, sampleSize |-> 0]
        ELSE [sum |-> SumOf(kept), sampleSize |-> Len(kept)]

PaceInit ==
    /\ lapHistory = << >>
    /\ outliersOff = FALSE
    /\ paceResult = NoResult

\* one more lap of the history (raceMonitorToUnified, lines 570-580)
AddLap(flag, time) ==
    /\ paceResult = NoResult
    /\ Len(lapHistory) < MaxPaceLaps
    /\ lapHistory' = Append(lapHistory, [flagStatus |-> flag, lapTime |-> time])
    /\ UNCHANGED <<outliersOff, paceResult>>

calculateTruePace(excludeOutliers) ==
    /\ paceResult = NoResult
    /\ paceResult' = calculateTruePaceOf(lapHistory, excludeOutliers)
    /\ outliersOff' = ~excludeOutliers
    /\ UNCHANGED lapHistory

PaceNext ==
    \/ \E flag \in FlagStatuses, time \in LapTimes :
          AddLap(flag, time) /\ UNCHANGED othersPace
    \/ \E excludeOutliers \in BOOLEAN :
          calculateTruePace(excludeOutliers) /\ UNCHANGED othersPace

-----------------------------------------------------------------------------
(* Claims about calculateTruePace                                          *)

\* the green laps whose time does not exceed 1.5 x the mean of all green laps
NotOutliers(history) ==
    LET times == TimesOf(SelectSeq(history, IsGreen))
        Within(t) == 2 * t * Len(times) <= 3 * SumOf(times)
    IN  SelectSeq(times, Within)

\* C11: with outlier exclusion enabled and at least one green lap, true
\* pace is the mean of exactly the green laps whose time does not exceed
\* 1.5 x the mean of all green laps.
C11_TruePaceExclusion ==
    (/\ paceResult # NoResult /\ ~outliersOff
     /\ \E i \in 1..Len(lapHistory) : IsGreen(lapHistory[i]))
    => /\ paceResult.sampleSize = Len(NotOutliers(lapHistory))
       /\ paceResult.sum = SumOf(NotOutliers(lapHistory))

-----------------------------------------------------------------------------------------------------------------------------------------------------
(* RedMistSignalRClient: the ReceiveMessage envelope handler                *)

MaxEnvelopes == 3

\* characters and bytes are their codes; a string is a sequence of codes
H4sI == <<72, 52, 115, 73>>
PadChar == 61

\* String.prototype.startsWith, line 1559
startsWith(s, prefix) ==
    /\ Len(s) >= Len(prefix)
    /\ SubSeq(s, 1, Len(prefix)) = prefix

\* the base64 alphabet: the character of a 6-bit value
B64Char(i) ==
    IF i < 26 THEN 65 + i
    ELSE IF i < 52 THEN 97 + (i - 26)
    ELSE IF i < 62 THEN 48 + (i - 52)
    ELSE IF i = 62 THEN 43 ELSE 47

\* the 6-bit value of a base64 character, -1 for any other character
B64Index(c) ==
    IF c >= 65 /\ c <= 90 THEN c - 65
    ELSE IF c >= 97 /\ c <= 122 THEN c - 97 + 26
    ELSE IF c >= 48 /\ c <= 57 THEN c - 48 + 52
    ELSE IF c = 43 THEN 62
    ELSE IF c = 47 THEN 63 ELSE -1

\* base64 encoding of a byte sequence (what the sender applies)
RECURSIVE btoa(_)
btoa(b) ==
    IF Len(b) = 0 THEN <<>>
    ELSE IF Len(b) = 1
    THEN <<B64Char(b[1] \div 4), B64Char((b[1] % 4) * 16), PadChar, PadChar>>
    ELSE IF Len(b) = 2
    THEN <<B64Char(b[1] \div 4), B64Char((b[1] % 4) * 16 + b[2] \div 16),
           B64Char((b[2] % 16) * 4), PadChar>>
    ELSE <<B64Char(b[1] \div 4), B64Char((b[1] % 4) * 16 + b[2] \div 16),
           B64Char((b[2] % 16) * 4 + b[3] \div 64), B64Char(b[3] % 64)>>
         \o btoa(SubSeq(b, 4, Len(b)))

\* the characters of a base64 string before its padding
Unpadded(s) ==
    IF Len(s) >= 2 /\ s[Len(s)] = PadChar /\ s[Len(s) - 1] = PadChar
    THEN SubSeq(s, 1, Len(s) - 2)
    ELSE IF Len(s) >= 1 /\ s[Len(s)] = PadChar
    THEN SubSeq(s, 1, Len(s) - 1)
    ELSE s

\* the bytes of unpadded base64 characters
RECURSIVE DecodeGroups(_)
DecodeGroups(s) ==
    IF Len(s) < 2 THEN <<>>
    ELSE LET v1 == B64Index(s[1])
             v2 == B64Index(s[2])
             b1 == v1 * 4 + v2 \div 16
         IN IF Len(s) = 2 THEN <<b1>>
            ELSE LET v3 == B64Index(s[3])
                     b2 == (v2 % 16) * 16 + v3 \div 4
                 IN IF Len(s) = 3 THEN <<b1, b2>>
                    ELSE <<b1, b2, (v3 % 4) * 64 + B64Index(s[4])>>
                         \o DecodeGroups(SubSeq(s, 5, Len(s)))

Failure == [ok |-> FALSE, value |-> <<>>]
Success(v) == [ok |-> TRUE, value |-> v]

\* atob(), line 1560: throws on a character outside the alphabet or a
\* length no base64 string has
atob(s) ==
    LET u == Unpadded(s)
    IN IF (\E i \in 1..Len(u) : B64Index(u[i]) = -1) \/ Len(u) % 4 = 1
       THEN Failure
       ELSE Success(DecodeGroups(u))

\* the check value a compressed stream ends with
RECURSIVE Checksum(_)
Checksum(b) == IF Len(b) = 0 THEN 0 ELSE (b[1] + Checksum(Tail(b))) % 256

\* the gzip and zlib containers of a deflate stream; the stream itself is
\* kept as stored (uncompressed) bytes followed by the check value
GzipHeader == <<31, 139, 8, 0>>
ZlibHeader == <<120, 156>>
gzip(b)    == GzipHeader \o b \o <<Checksum(b)>>
deflate(b) == ZlibHeader \o b \o <<Checksum(b)>>

\* the stream of a container: its bytes if the check value matches
Stored(body) ==
    IF Len(body) >= 1
       /\ body[Len(body)] = Checksum(SubSeq(body, 1, Len(body) - 1))
    THEN Success(SubSeq(body, 1, Len(body) - 1))
    ELSE Failure

\* pako.inflate(bytes, { to: 'string' }), line 1565: detects the gzip or the
\* zlib container by its header and throws on anything else
inflate(b) ==
    IF startsWith(b, GzipHeader)
    THEN Stored(SubSeq(b, Len(GzipHeader) + 1, Len(b)))
    ELSE IF startsWith(b, ZlibHeader)
    THEN Stored(SubSeq(b, Len(ZlibHeader) + 1, Len(b)))
    ELSE Failure

\* JSON values: null, or an object described by its keys, those of its keys
\* with a truthy value, those holding an array, and its "t" member
JNull == [type |-> "null", keys |-> {}, truthy |-> {}, arrays |-> {}, t |-> ""]
JObject(keys, truthy, arrays, t) ==
    [type |-> "object", keys |-> keys, truthy |-> truthy, arrays |-> arrays,
     t |-> t]

SessionDoc == JObject({"eventId"}, {"eventId"}, {}, "")
CarsDoc    == JObject({"cps"}, {"cps"}, {"cps"}, "")
PatchDoc   == JObject({"t", "patches"}, {"t", "patches"}, {"patches"}, "patch")
EmptyDoc   == JObject({}, {}, {}, "")

\* the JSON texts of the model:
\*   {"eventId":1}   {"cps":[1]}   {"t":"patch","patches":[]}   {}   null
JsonTexts ==
    { [text |-> <<123, 34, 101, 118, 101, 110, 116, 73, 100, 34, 58, 49, 125>>,
       value |-> SessionDoc],
      [text |-> <<123, 34, 99, 112, 115, 34, 58, 91, 49, 93, 125>>,
       value |-> CarsDoc],
      [text |-> <<123, 34, 116, 34, 58, 34, 112, 97, 116, 99, 104, 34, 44, 34,
                  112, 97, 116, 99, 104, 101, 115, 34, 58, 91, 93, 125>>,
       value |-> PatchDoc],
      [text |-> <<123, 125>>, value |-> EmptyDoc],
      [text |-> <<110, 117, 108, 108>>, value |-> JNull] }

\* JSON.stringify of a value of the model
stringify(v) == (CHOOSE j \in JsonTexts : j.value = v).text

\* JSON.parse, lines 1566 and 1570: throws on a text that is not JSON
JSONparse(text) ==
    IF \E j \in JsonTexts : j.text = text
    THEN Success((CHOOSE j \in JsonTexts : j.text = text).value)
    ELSE Failure

DecodeError == [ok |-> FALSE, value |-> <<>>, inflated |-> FALSE]

\* decompressMessage(message), lines 1557-1571: the value, or the throw; and
\* whether pako.inflate was called
decompressMessage(message) ==
    IF startsWith(message, H4sI)
    THEN LET binaryString == atob(message)
         IN IF ~binaryString.ok THEN DecodeError
            ELSE LET decompressed == inflate(binaryString.value)
                 IN IF ~decompressed.ok
                    THEN [DecodeError EXCEPT !.inflated = TRUE]
                    ELSE LET parsed == JSONparse(decompressed.value)
                         IN [ok |-> parsed.ok, value |-> parsed.value,
                             inflated |-> TRUE]
    ELSE LET parsed == JSONparse(message)
         IN [ok |-> parsed.ok, value |-> parsed.value, inflated |-> FALSE]

NoHandler == "none"

\* handleMessage(data), lines 1576-1592: whether it throws before reaching a
\* typed handler (reading a member of null), and the typed handler it calls
handleMessage(data) ==
    IF data.type = "null"
    THEN [threw |-> TRUE, handler |-> NoHandler]
    ELSE IF data.t = "patch" /\ "patches" \in data.arrays
    THEN [threw |-> FALSE, handler |-> NoHandler]
    ELSE IF "eventId" \in data.keys \/ "sessionId" \in data.keys
    THEN [threw |-> FALSE, handler |-> "onSessionUpdate"]
    ELSE IF "cps" \in data.truthy \/ "carPositions" \in data.truthy
    THEN [threw |-> FALSE, handler |-> "onCarUpdate"]
    ELSE [threw |-> FALSE, handler |-> NoHandler]

\* faulty variant of StaysRegistered: an error ends the dispatch loop
StaysRegisteredUntilError(error) == ~error

\* the catch block of the ReceiveMessage handler, lines 1523-1525, logs the
\* error and returns normally: the handler stays registered
StaysRegistered(error) == TRUE

\* the envelopes a sender produces from a JSON value
PlainEnvelope(v)   == stringify(v)
GzipEnvelope(v)    == btoa(gzip(stringify(v)))
DeflateEnvelope(v) == btoa(deflate(stringify(v)))

\* envelopes that are not what a sender produces: a character outside the
\* base64 alphabet, a compressed stream cut short, a JSON text cut short
\* (plain and compressed)
BadBase64     == H4sI \o <<33, 33, 33, 33>>
BadCompressed == LET z == gzip(stringify(SessionDoc))
                 IN btoa(SubSeq(z, 1, Len(z) - 3))
CutJson       == <<123, 34, 101, 118, 101, 110, 116, 73, 100, 34, 58>>
BadJson       == CutJson
BadGzipJson   == btoa(gzip(CutJson))

Docs == {SessionDoc, CarsDoc, PatchDoc, EmptyDoc, JNull}
Malformed == {BadBase64, BadCompressed, BadJson, BadGzipJson}
Envelopes ==
    {PlainEnvelope(v) : v \in Docs} \cup {GzipEnvelope(v) : v \in Docs}
    \cup {DeflateEnvelope(v) : v \in {SessionDoc, CarsDoc}} \cup Malformed

NoEnvelope == <<>>

MsgInit ==
    /\ received = 0
    /\ lastEnvelope = NoEnvelope
    /\ lastDecoded = DecodeError
    /\ inflated = FALSE
    /\ invoked = NoHandler
    /\ caught = FALSE
    /\ listening = TRUE
    /\ deliveries = <<>>
    /\ errors = 0

\* the 'ReceiveMessage' handler, lines 1520-1527, on one envelope.
\* callbackThrows: whether the typed handler it calls, if any, throws
ReceiveMessage(message, callbackThrows) ==
    /\ received < MaxEnvelopes
    /\ listening
    /\ received' = received + 1
    /\ lastEnvelope' = message
    /\ \E data \in {decompressMessage(message)} :
          /\ lastDecoded' = data
          /\ inflated' = data.inflated
          /\ \E h \in {IF data.ok THEN handleMessage(data.value)
                       ELSE [threw |-> FALSE, handler |-> NoHandler]} :
                /\ invoked' = h.handler
                /\ deliveries' = IF h.handler # NoHandler
                                 THEN Append(deliveries, h.handler)
                                 ELSE deliveries
                /\ \E error \in {~data.ok \/ h.threw
                                 \/ (h.handler # NoHandler /\ callbackThrows)} :
                      /\ caught' = error
                      /\ errors' = IF error THEN errors + 1 ELSE errors
                      /\ listening' = StaysRegistered(error)

MsgNext ==
    \E message \in Envelopes, callbackThrows \in BOOLEAN :
        ReceiveMessage(message, callbackThrows) /\ UNCHANGED othersMsg

-----------------------------------------------------------------------------
(* Claims about the envelope handler                                       *)

\* a step in which the handler has processed an envelope
Handled == received' = received + 1

\* the typed handler a JSON value of the model is meant for
HandlerOf(v) ==
    IF v = SessionDoc THEN "onSessionUpdate"
    ELSE IF v = CarsDoc THEN "onCarUpdate" ELSE NoHandler

\* C14 as stated: an envelope that cannot be decoded, or whose handling
\* throws, invokes no typed handler, raises no error out of the message
\* handler and changes no connection state, and every later well-formed
\* envelope is still decoded and dispatched.
C14_MalformedDropped ==
    [][Handled =>
          /\ (~lastDecoded'.ok \/ caught') => invoked' = NoHandler
          /\ listening'
          /\ UNCHANGED connVars
          /\ \A v \in {SessionDoc, CarsDoc} :
                lastEnvelope' \in {PlainEnvelope(v), GzipEnvelope(v)}
                => (lastDecoded'.ok /\ lastDecoded'.value = v
                    /\ invoked' = HandlerOf(v))
      ]_vars

\* C14, amended: an envelope that cannot be decoded, or whose handling
\* throws before a typed handler is reached, invokes no typed handler; an
\* envelope that reaches a typed handler was decoded, and an error the typed
\* handler throws is caught like any other. No envelope raises an error out
\* of the message handler or changes connection state, and every later
\* envelope is decoded and dispatched as it is on a fresh handler.
C14_UndecodableDropped ==
    [][Handled =>
          /\ ~lastDecoded'.ok => (invoked' = NoHandler /\ caught')
          /\ (lastDecoded'.ok /\ lastDecoded'.value = JNull)
                => (invoked' = NoHandler /\ caught')
          /\ invoked' # NoHandler => lastDecoded'.ok
          /\ listening'
          /\ UNCHANGED connVars
          /\ lastDecoded' = decompressMessage(lastEnvelope')
          /\ invoked' = IF lastDecoded'.ok
                        THEN handleMessage(lastDecoded'.value).handler
                        ELSE NoHandler
          /\ \A v \in {SessionDoc, CarsDoc} :
                lastEnvelope' \in {PlainEnvelope(v), GzipEnvelope(v)}
                => (lastDecoded'.ok /\ lastDecoded'.value = v
                    /\ invoked' = HandlerOf(v))
      ]_vars

\* C14 witness: after two envelopes ended in the catch block, a compressed
\* full-session envelope was decoded and dispatched
C14_Witness ==
    /\ received = 3
    /\ errors = 2
    /\ deliveries = <<"onSessionUpdate">>
    /\ lastEnvelope = GzipEnvelope(SessionDoc)
    /\ invoked = "onSessionUpdate"
    /\ ~caught

\* C15: envelope codec. Decoding the envelope produced by compressing
\* (gzip or deflate) and base64-encoding a JSON object returns the object
\* through the decompression path; an envelope without the magic prefix is
\* JSON-parsed directly, without a decompression attempt.
C15_EnvelopeCodec ==
    /\ \A v \in {SessionDoc, CarsDoc} :
          /\ lastEnvelope \in {GzipEnvelope(v), DeflateEnvelope(v)}
                => (lastDecoded.ok /\ lastDecoded.value = v /\ inflated)
          /\ lastEnvelope = PlainEnvelope(v)
                => (lastDecoded.ok /\ lastDecoded.value = v /\ ~inflated)
    /\ (received > 0 /\ ~startsWith(lastEnvelope, H4sI)) => ~inflated

-----------------------------------------------------------------------------
(* useRaceMonitorStore: unified competitors of the two providers            *)

MaxUnifyOps == 2

Transponders == {"T1", "T2"}
NoMapping == "none"

\* what a provider sends for the cars of a session: car 7 alone, or cars 7
\* and 8, each with one of the transponders or without one; two cars never
\* carry the same transponder
CarLists ==
    {<< [tp |-> t, n |-> "7"] >> : t \in Transponders \cup {""}}
    \cup {<< [tp |-> p[1], n |-> "7"], [tp |-> p[2], n |-> "8"] >> :
             p \in {q \in (Transponders \cup {""}) \X (Transponders \cup {""}) :
                       q[2] = "" \/ q[2] # q[1]}}

\* redmistToUnified(car), lines 505-545: the unified record
redmistToUnified(car) ==
    [BaseRedmist EXCEPT !.transponder = car.tp, !.carNumber = car.n]

\* raceMonitorToUnified(competitor, lapTimes), lines 550-598: the unified
\* record; withLaps: lap times were passed
raceMonitorToUnified(competitor, withLaps) ==
    [BaseRaceMonitor EXCEPT
        !.transponder = competitor.tp, !.carNumber = competitor.n,
        !.lapHistory = IF withLaps THEN << <<"green", "yellow">> >>
                       ELSE << <<>> >>]

\* transponderStore.set for every record of a list, in order (lines 519-526
\* for provider A, 563-570 for provider B, TransponderStore.set 426-429)
RECURSIVE SetMappings(_, _, _)
SetMappings(m, cars, fromRedmist) ==
    IF cars = <<>> THEN m
    ELSE LET car == Head(cars)
             sets == IF fromRedmist THEN car.tp # "" /\ car.n # ""
                     ELSE car.tp # ""
         IN SetMappings(IF sets THEN [m EXCEPT ![car.tp] = car.n] ELSE m,
                        Tail(cars), fromRedmist)

UnifyInit ==
    /\ unifiedCompetitors = <<>>
    /\ lapHistoryByTransponder = [t \in Transponders |-> Undefined]
    /\ mappings = [t \in Transponders |-> NoMapping]
    /\ redmistUnified = <<>>
    /\ unifyOps = 0
    /\ unifyOp = "none"

\* fetchLiveSession, store/index.ts lines 319-337 (successful fetch)
fetchLiveSession(competitors) ==
    /\ unifyOps < MaxUnifyOps
    /\ unifyOps' = unifyOps + 1
    /\ unifyOp' = "fetchLiveSession"
    /\ unifiedCompetitors' =
          [i \in 1..Len(competitors) |->
              raceMonitorToUnified(competitors[i], FALSE)]
    /\ mappings' = SetMappings(mappings, competitors, FALSE)
    /\ UNCHANGED <<lapHistoryByTransponder, redmistUnified>>

\* fetchSessionDetails, store/index.ts lines 339-368 (successful fetch)
fetchSessionDetails(competitors) ==
    /\ unifyOps < MaxUnifyOps
    /\ unifyOps' = unifyOps + 1
    /\ unifyOp' = "fetchSessionDetails"
    /\ unifiedCompetitors' =
          [i \in 1..Len(competitors) |->
              raceMonitorToUnified(competitors[i], TRUE)]
    /\ lapHistoryByTransponder' =
          [t \in Transponders |->
              IF \E i \in 1..Len(competitors) : competitors[i].tp = t
              THEN << <<"green", "yellow">> >> ELSE Undefined]
    /\ mappings' = SetMappings(mappings, competitors, FALSE)
    /\ UNCHANGED redmistUnified

\* rmByTransponder.get, store/index.ts lines 410-419: the index of the kept
\* record found for a transponder (the last one set), 0 if none
Lookup(comps, transponder) ==
    IF transponder = "" THEN 0
    ELSE LET hits == {j \in 1..Len(comps) : comps[j].transponder = transponder}
         IN IF hits = {} THEN 0
            ELSE CHOOSE j \in hits : \A k \in hits : k <= j

\* one car of mergeWithRedMist, store/index.ts lines 417-435
MergedCar(rmCar, comps, histories) ==
    LET j == Lookup(comps, rmCar.transponder)
    IN IF j = 0 THEN rmCar
       ELSE [mergeCompetitorData(rmCar, comps[j]) EXCEPT
                !.lapHistory = histories[rmCar.transponder]]

\* mergeWithRedMist(redmistCars, sessionState), store/index.ts lines 403-441
mergeWithRedMist(redmistCars) ==
    /\ unifyOps < MaxUnifyOps
    /\ unifyOps' = unifyOps + 1
    /\ unifyOp' = "mergeWithRedMist"
    /\ redmistUnified' =
          [i \in 1..Len(redmistCars) |-> redmistToUnified(redmistCars[i])]
    /\ mappings' = SetMappings(mappings, redmistCars, TRUE)
    /\ unifiedCompetitors' =
          [i \in 1..Len(redmistCars) |->
              MergedCar(redmistToUnified(redmistCars[i]), unifiedCompetitors,
                        lapHistoryByTransponder)]
    /\ UNCHANGED lapHistoryByTransponder

UnifyNext ==
    \/ \E cars \in CarLists : fetchLiveSession(cars) /\ UNCHANGED othersUnify
    \/ \E cars \in CarLists : fetchSessionDetails(cars) /\ UNCHANGED othersUnify
    \/ \E cars \in CarLists : mergeWithRedMist(cars) /\ UNCHANGED othersUnify

-----------------------------------------------------------------------------
(* Claims about the correlation of the two providers' records              *)

\* both records carry a transponder id and the ids are equal
SameTransponder(a, b) ==
    a.transponder # "" /\ b.transponder # "" /\ a.transponder = b.transponder

\* a transponder id is missing on either side and the car numbers are equal
SameCarNumber(a, b) ==
    /\ a.transponder = "" \/ b.transponder = ""
    /\ a.carNumber # "" /\ a.carNumber = b.carNumber

\* the kept records a provider-A record is correlated with: by transponder
\* first, by car number as the fallback
Correlated(a, comps) ==
    LET byTransponder == {j \in 1..Len(comps) : SameTransponder(a, comps[j])}
    IN IF byTransponder # {} THEN byTransponder
       ELSE {j \in 1..Len(comps) : SameCarNumber(a, comps[j])}

\* the unified competitor is the merge of the two records
MergedOf(u, a, b) ==
    \A f \in Fields \ {"lapHistory"} : u[f] = mergeCompetitorData(a, b)[f]

\* C17: correlation key order. In a merge of provider-A records with the
\* kept provider-B records, a provider-A record is merged with the kept
\* record that carries the same transponder id; when a transponder id is
\* missing on either side, with the kept record of the same car number; and
\* with no record otherwise.
C17_CorrelationKeyOrder ==
    [][(unifyOps' = unifyOps + 1 /\ redmistUnified' # redmistUnified
        /\ \A j \in 1..Len(unifiedCompetitors) :
              unifiedCompetitors[j].srcRedmist = Undefined)
       => \A i \in 1..Len(redmistUnified') :
             LET a == redmistUnified'[i]
                 partners == Correlated(a, unifiedCompetitors)
             IN IF partners = {}
                THEN unifiedCompetitors'[i] = a
                ELSE \E j \in partners :
                        MergedOf(unifiedCompetitors'[i], a,
                                 unifiedCompetitors[j])
      ]_vars


\* two unified records are records of the same car: the same transponder id
\* when both carry one, the same car number otherwise
SameCar(a, b) ==
    IF a.transponder # "" /\ b.transponder # ""
    THEN a.transponder = b.transponder
    ELSE a.carNumber = b.carNumber

\* the kept records of the car of record u
KeptOf(u) ==
    {j \in 1..Len(unifiedCompetitors) : SameCar(unifiedCompetitors[j], u)}

\* C24: the sources marker is an additive OR. After a store operation, a
\* provider's presence flag is set on a car's record exactly when that
\* provider delivered the car in this operation or the flag was set on a
\* record kept for the car: a flag once set is never reset, and a flag is
\* never set for a provider that contributed no data for the car.
C24_SourcesAdditive ==
    [][unifyOps' = unifyOps + 1 =>
          \A i \in 1..Len(unifiedCompetitors') :
             LET u == unifiedCompetitors'[i] IN
             /\ (u.srcRedmist = <<TRUE>>) <=>
                    \/ unifyOp' = "mergeWithRedMist"
                    \/ \E j \in KeptOf(u) :
                          unifiedCompetitors[j].srcRedmist = <<TRUE>>
             /\ (u.srcRacemonitor = <<TRUE>>) <=>
                    \/ unifyOp' \in {"fetchLiveSession", "fetchSessionDetails"}
                    \/ \E j \in KeptOf(u) :
                          unifiedCompetitors[j].srcRacemonitor = <<TRUE>>
      ]_vars

\* C26: no deletion during a session. A car that is in the unified-competitor
\* list is in the list after every later snapshot or merge from either
\* provider; its record may be replaced, never removed.
C26_NoDeletion ==
    [][\A j \in 1..Len(unifiedCompetitors) :
          \E i \in 1..Len(unifiedCompetitors') :
             \/ unifiedCompetitors'[i].carNumber = unifiedCompetitors[j].carNumber
             \/ /\ unifiedCompetitors[j].transponder # ""
                /\ unifiedCompetitors'[i].transponder =
                      unifiedCompetitors[j].transponder
      ]_vars

\* C27: transponder mapping invariant. The mapping holds at most one entry
\* per transponder id, and the car number recorded for a transponder does
\* not change once it has been set, whatever provider records carrying the
\* transponder are converted later.
C27_MappingStable ==
    [][\A t \in Transponders :
          mappings[t] # NoMapping => mappings'[t] = mappings[t]]_vars

-----------------------------------------------------------------------------
(* db.getLapsForSession: paginated read of the laps table                   *)

\* the page size (1000 in the source, line 275), scaled down
pageSize == 2

MaxRows == 5

SessionIds == {1, 2}

\* the stored rows of a session in the order of the query (car_number, then
\* lap_number: the table's conflict key, so the order is total)
Row(sessionId, k) == <<sessionId, k>>

\* .range(from, to) on the ordered rows of the session, lines 279-285
Range(sessionId, from, to) ==
    LET last == IF to + 1 < lapRows[sessionId] THEN to + 1
                ELSE lapRows[sessionId]
    IN [i \in 1..(IF last > from THEN last - from ELSE 0) |->
           Row(sessionId, from + i)]

\* faulty variant of HasMore: a full page is taken for the last one
HasMoreNever(len) == len > pageSize

\* line 295: a full page means there might be more
HasMore(len) == len = pageSize

LapsInit ==
    /\ lapRows = [s \in SessionIds |-> 0]
    /\ readPc = "idle"
    /\ readSession = 1
    /\ allLaps = << >>
    /\ readOffset = 0
    /\ requested = << >>
    /\ readFailed = FALSE

\* upsertLaps stores one more row of a session (lines 243-265); the table
\* is not written while a read is paging through it
upsertLaps(sessionId) ==
    /\ readPc # "reading"
    /\ lapRows[sessionId] < MaxRows
    /\ lapRows' = [lapRows EXCEPT ![sessionId] = @ + 1]
    /\ UNCHANGED <<readPc, readSession, allLaps, readOffset, requested,
                   readFailed>>

\* getLapsForSession(sessionId), lines 267-285: up to the first page request
getLapsForSession(sessionId) ==
    /\ readPc # "reading"
    /\ readPc' = "reading"
    /\ readSession' = sessionId
    /\ allLaps' = << >>
    /\ readOffset' = 0
    /\ requested' = << >>
    /\ readFailed' = FALSE
    /\ UNCHANGED lapRows

\* lines 279-300: a page request returns its rows; the loop goes on to the
\* next request or the call returns allLaps
PageReturned ==
    /\ readPc = "reading"
    /\ LET from == readOffset
           to   == readOffset + pageSize - 1
           data == Range(readSession, from, to)
       IN /\ requested' = Append(requested, <<from, to>>)
          /\ allLaps' = allLaps \o data
          /\ readOffset' = readOffset + Len(data)
          /\ readPc' = IF Len(data) > 0 /\ HasMore(Len(data))
                       THEN "reading" ELSE "done"
    /\ UNCHANGED <<lapRows, readSession, readFailed>>

\* lines 287-290: a page request returns an error; the call returns what it
\* has so far
PageFailed ==
    /\ readPc = "reading"
    /\ requested' = Append(requested,
                           <<readOffset, readOffset + pageSize - 1>>)
    /\ readPc' = "done"
    /\ readFailed' = TRUE
    /\ UNCHANGED <<lapRows, readSession, allLaps, readOffset>>

LapsNext ==
    \/ \E s \in SessionIds : upsertLaps(s) /\ UNCHANGED othersLaps
    \/ \E s \in SessionIds : getLapsForSession(s) /\ UNCHANGED othersLaps
    \/ PageReturned /\ UNCHANGED othersLaps
    \/ PageFailed /\ UNCHANGED othersLaps

\* a page request is answered
LapsFairness ==
    WF_vars((PageReturned \/ PageFailed) /\ UNCHANGED othersLaps)

-----------------------------------------------------------------------------
(* Claims about getLapsForSession                                          *)

\* the pages requested are consecutive and do not overlap
ConsecutivePages ==
    \A k \in 1..Len(requested) :
        requested[k] = <<(k - 1) * pageSize, k * pageSize - 1>>

\* C20: paginated read completeness. A call none of whose page requests
\* failed returns every stored row of the session exactly once, for any row
\* count; it requests consecutive non-overlapping pages, stops at the first
\* page shorter than the page size, and terminates.
C20_PaginatedReadComplete ==
    /\ [](ConsecutivePages /\ Len(requested) <= lapRows[readSession] \div pageSize + 1)
    /\ [][(readPc = "reading" /\ readPc' = "done" /\ ~readFailed') =>
            /\ allLaps' = [i \in 1..lapRows[readSession] |-> Row(readSession, i)]
            /\ Len(requested') = lapRows[readSession] \div pageSize + 1
         ]_vars
    /\ (readPc = "reading") ~> (readPc = "done")

\* C20 witness: a session with exactly two full pages of rows was read with
\* three requests, the last one returning no row
C20_Witness ==
    /\ readPc = "done" /\ ~readFailed
    /\ lapRows[readSession] = 2 * pageSize
    /\ Len(requested) = 3
    /\ Len(allLaps) = 2 * pageSize

-----------------------------------------------------------------------------
(* syncLapData (lib/sync): the lap sync of one session into the laps table  *)
(* (Supabase is configured; no client call throws, errors are returned)     *)

\* the batch size of db.upsertLaps (500 in the source, line 247), scaled down
chunkSize == 2

\* bounds: syncLapData calls made, and laps the API holds for a car
MaxSyncRuns == 2
MaxCarLaps == 2

\* the carNumbers a caller asks for
SyncCarLists == {<<"7">>, <<"7", "8">>}

SyncInit ==
    /\ syncStatus = "none"
    /\ lapTable = {}
    /\ syncPc = "idle"
    /\ syncCars = <<>>
    /\ carIndex = 0
    /\ syncAllLaps = <<>>
    /\ syncResult = 0
    /\ fromCache = FALSE
    /\ fetchFailed = FALSE
    /\ batchFailed = FALSE
    /\ marked = FALSE
    /\ dirty = FALSE
    /\ syncRuns = 0

\* db.getSessionLapCount, supabase.ts lines 323-336
getSessionLapCount == Cardinality(lapTable)

\* syncLapData, lines 130-142: the check of the sync status. statusRead:
\* whether db.getSyncStatus got the row (it answers null on an error)
syncLapData(carNumbers, statusRead) ==
    /\ syncPc = "idle"
    /\ syncRuns < MaxSyncRuns
    /\ syncRuns' = syncRuns + 1
    /\ syncCars' = carNumbers
    /\ fetchFailed' = FALSE
    /\ batchFailed' = FALSE
    /\ marked' = FALSE
    /\ syncAllLaps' = <<>>
    /\ IF statusRead /\ syncStatus = "complete" /\ getSessionLapCount > 0
       THEN /\ syncPc' = "done"
            /\ fromCache' = TRUE
            /\ syncResult' = getSessionLapCount
            /\ carIndex' = 0
       ELSE /\ syncPc' = "fetching"
            /\ fromCache' = FALSE
            /\ syncResult' = 0
            /\ carIndex' = 1
    /\ UNCHANGED <<syncStatus, lapTable, dirty>>

\* the rows made of the laps fetched for a car, lines 151-169: the lap
\* number is the index
RowsOf(carNumber, count) == [i \in 1..count |-> <<carNumber, i>>]

\* one round of the loop over carNumbers, lines 147-182. ok: api.getCarLaps
\* answered, with count laps; otherwise it threw and the error is logged
CarLapsFetched(ok, count) ==
    /\ syncPc = "fetching"
    /\ syncAllLaps' = IF ok THEN syncAllLaps \o RowsOf(syncCars[carIndex], count)
                      ELSE syncAllLaps
    /\ fetchFailed' = (fetchFailed \/ ~ok)
    /\ IF carIndex < Len(syncCars)
       THEN carIndex' = carIndex + 1 /\ syncPc' = "fetching"
       ELSE carIndex' = 0 /\ syncPc' = "storing"
    /\ UNCHANGED <<syncStatus, lapTable, syncCars, syncResult, fromCache,
                   batchFailed, marked, dirty, syncRuns>>

\* the batches db.upsertLaps cuts the rows into, supabase.ts lines 247-251
Chunks(len) == 1..((len + chunkSize - 1) \div chunkSize)
ChunkOf(i) == ((i - 1) \div chunkSize) + 1

\* db.upsertLaps, supabase.ts lines 243-265: the table after the call;
\* stored[c]: whether the upsert of batch c returned no error
upsertedLaps(laps, stored) ==
    lapTable \cup {laps[i] : i \in {j \in 1..Len(laps) : stored[ChunkOf(j)]}}

\* syncLapData, lines 185-188: whether updateSyncStatus is called
MarksComplete(laps) == Len(laps) > 0

\* syncLapData, lines 184-193: the batch insert, the status update and the
\* return. statusWritten: whether the upsert of db.updateSyncStatus
\* (supabase.ts lines 475-491) returned no error
LapsStored(stored, statusWritten) ==
    /\ syncPc = "storing"
    /\ lapTable' = upsertedLaps(syncAllLaps, stored)
    /\ batchFailed' = \E c \in Chunks(Len(syncAllLaps)) : ~stored[c]
    /\ marked' = (MarksComplete(syncAllLaps) /\ statusWritten)
    /\ syncStatus' = IF marked' THEN "complete" ELSE syncStatus
    /\ dirty' = (fetchFailed \/ batchFailed')
    /\ syncResult' = Len(syncAllLaps)
    /\ syncPc' = "done"
    /\ UNCHANGED <<syncCars, carIndex, syncAllLaps, fromCache, fetchFailed,
                   syncRuns>>

\* the caller has the result and may call again
SyncReturn ==
    /\ syncPc = "done"
    /\ syncPc' = "idle"
    /\ UNCHANGED <<syncStatus, lapTable, syncCars, carIndex, syncAllLaps,
                   syncResult, fromCache, fetchFailed, batchFailed, marked,
                   dirty, syncRuns>>

SyncNext ==
    \/ \E carNumbers \in SyncCarLists, statusRead \in BOOLEAN :
          syncLapData(carNumbers, statusRead) /\ UNCHANGED othersSync
    \/ \E ok \in BOOLEAN, count \in 0..MaxCarLaps :
          CarLapsFetched(ok, count) /\ UNCHANGED othersSync
    \/ \E stored \in [Chunks(Len(syncAllLaps)) -> BOOLEAN],
          statusWritten \in BOOLEAN :
          LapsStored(stored, statusWritten) /\ UNCHANGED othersSync
    \/ SyncReturn /\ UNCHANGED othersSync

-----------------------------------------------------------------------------
(* Claims about syncLapData                                                *)

\* C30: lap-sync completeness marker. A run records the status 'complete'
\* only if the laps of every requested car were fetched and every batch of
\* rows was stored; after a run in which a fetch or a batch failed, a later
\* call fetches from the API again and does not return the cached lap count.
C30_CompleteMeansComplete ==
    /\ marked => (~fetchFailed /\ ~batchFailed)
    /\ (syncPc = "done" /\ fromCache) => ~dirty

-----
(* The whole client: the components run side by side                       *)

Init == TokenInit /\ ConnInit /\ StoreInit /\ MergeInit /\ ReplayInit
        /\ PaceInit /\ MsgInit /\ UnifyInit /\ LapsInit /\ SyncInit
Next == RefreshNext \/ AuthNext \/ ConnNext \/ StoreNext \/ MergeNext \/ ReplayNext
        \/ PaceNext \/ MsgNext \/ UnifyNext \/ LapsNext \/ SyncNext
Spec == Init /\ [][Next]_vars

\* one component at a time, the others idle
SpecToken == Init /\ [][TokenNext]_vars
SpecRefresh == Init /\ [][RefreshNext]_vars
SpecAuth == Init /\ [][AuthNext]_vars
SpecConnLive == Init /\ [][ConnNext]_vars /\ ConnFairness
SpecConn  == Init /\ [][ConnNext]_vars
SpecStore == Init /\ [][StoreNext]_vars
SpecMerge == Init /\ [][MergeNext]_vars
SpecReplay == Init /\ [][ReplayNext]_vars
SpecPace == Init /\ [][PaceNext]_vars
SpecMsg == Init /\ [][MsgNext]_vars
SpecUnify == Init /\ [][UnifyNext]_vars
SpecLaps == Init /\ [][LapsNext]_vars
SpecSync == Init /\ [][SyncNext]_vars
SpecLapsLive == Init /\ [][LapsNext]_vars /\ LapsFairness

====
